---- MODULE Spec2Model ----
(***************************************************************************)
(* The server-side identification engine of mowsen/fingerprint:           *)
(*   - persistent-identity tokens (services/identity.ts, first part),     *)
(*   - the crowd-blending trust scorer (services/crowd-blending.ts),      *)
(*   - the six-layer matching engine and its store (services/identity.ts, *)
(*     the matchFingerprint that imports crowd-blending),                 *)
(*   - the POST /api/fingerprint handler (routes/fingerprint.ts).         *)
(*                                                                         *)
(* Representation.                                                         *)
(*   A JavaScript string is a sequence of one-character strings, so that  *)
(*   split, substring, parseInt, hex decoding and the Hamming loop work   *)
(*   on characters as the code does.  null/undefined is NULL.             *)
(*   Time is counted in hours (DayMs is one day); Date.now() is `now`.    *)
(*   A confidence is an integer number of 1e-7 (ConfOne is 1.0), which    *)
(*   holds base * 0.7 and 1 - d/64 exactly; a crowd score is an integer   *)
(*   number of hundredths, a GPU score likewise.                          *)
(*   Rows of a table are kept in creation order (createdAt ascending).    *)
(***************************************************************************)
EXTENDS Integers, Sequences, FiniteSets, TLC

VARIABLES
  visitors,      \* table Visitor
  fingerprints,  \* table Fingerprint
  sessions,      \* table Session
  stats,         \* table Stats, keyed by date
  now,           \* the clock, Date.now()
  req,           \* the request body and transport data of the last POST
  res,           \* its response
  pre,           \* table sizes and clock when that POST arrived
  tin,           \* the token a client holds (token layer on its own)
  tout,          \* what the last call of a token function returned
  handlers,      \* the handlers in flight, each at one of its awaits
  pending,       \* promises nobody awaits: updateStats, updateVisitorTrust
  sc,            \* what the last call of the trust scorer returned
  fn             \* what the last call of a helper function returned

vars == << visitors, fingerprints, sessions, stats, now, req, res, pre, tin, tout,
           handlers, pending, sc, fn >>

engineVars == << visitors, fingerprints, sessions, stats, now, req, res, pre >>

asyncVars == << handlers, pending, sc, fn >>

----------------------------------------------------------------------------
(* Characters and strings *)

LowerHex ==
  << "0", "1", "2", "3", "4", "5", "6", "7", "8", "9", "a", "b", "c", "d", "e", "f" >>

UpperHexLetters ==
  << "A", "B", "C", "D", "E", "F" >>

\* the characters a tampered signature is drawn from: hex digits of both
\* cases and three characters that are no hex digit
Alphabet ==
  { LowerHex[i] : i \in 1..16 } \cup { UpperHexLetters[i] : i \in 1..6 } \cup { "g", "-", "." }

NULL ==
  << "null" >>

\* JavaScript truthiness of a string | null | undefined
Truthy(s) ==
  s # NULL /\ s # << >>

\* value of a hex digit (either case), -1 for any other character
HexValue(c) ==
  IF \E i \in 1..16 : LowerHex[i] = c
    THEN (CHOOSE i \in 1..16 : LowerHex[i] = c) - 1
    ELSE IF \E i \in 1..6 : UpperHexLetters[i] = c
      THEN (CHOOSE i \in 1..6 : UpperHexLetters[i] = c) + 9
      ELSE -1

IsDecDigit(c) ==
  \E i \in 1..10 : LowerHex[i] = c

\* Buffer.from(s, 'hex'): two hex digits per byte, decoding stops at the
\* first pair that is not two hex digits (and drops an odd last character)
BufferFromHex(s) ==
  LET n == Len(s) \div 2
      ok(k) == HexValue(s[2 * k - 1]) >= 0 /\ HexValue(s[2 * k]) >= 0
      m == IF \A k \in 1..n : ok(k)
             THEN n
             ELSE (CHOOSE k \in 1..n : ~ok(k) /\ \A j \in 1..(k - 1) : ok(j)) - 1
  IN  [k \in 1..m |-> 16 * HexValue(s[2 * k - 1]) + HexValue(s[2 * k])]

\* String.prototype.split(sep) for a one-character separator
RECURSIVE Split(_, _)
Split(s, sep) ==
  IF \A i \in 1..Len(s) : s[i] # sep
    THEN << s >>
    ELSE LET k == CHOOSE i \in 1..Len(s) : s[i] = sep /\ \A j \in 1..(i - 1) : s[j] # sep
         IN  << SubSeq(s, 1, k - 1) >> \o Split(SubSeq(s, k + 1, Len(s)), sep)

\* value of a sequence of decimal digits
RECURSIVE DigitsValue(_)
DigitsValue(s) ==
  IF s = << >> THEN 0
  ELSE 10 * DigitsValue(SubSeq(s, 1, Len(s) - 1)) + HexValue(s[Len(s)])

\* parseInt(s, 10): an optional sign, then the longest run of decimal
\* digits; NaN when there is none
ParseInt(s) ==
  LET neg  == s # << >> /\ s[1] = "-"
      body == IF neg THEN Tail(s) ELSE s
      len  == IF \A i \in 1..Len(body) : IsDecDigit(body[i])
                THEN Len(body)
                ELSE (CHOOSE i \in 1..Len(body) :
                        ~IsDecDigit(body[i]) /\ \A j \in 1..(i - 1) : IsDecDigit(body[j])) - 1
      v    == DigitsValue(SubSeq(body, 1, len))
  IN  [isNaN |-> len = 0, value |-> IF neg THEN 0 - v ELSE v]

\* String(n) of a non-negative integer
RECURSIVE NumberToString(_)
NumberToString(n) ==
  IF n < 10 THEN << LowerHex[n + 1] >>
  ELSE NumberToString(n \div 10) \o << LowerHex[(n % 10) + 1] >>

----------------------------------------------------------------------------
(* Visitor ids: crypto.randomUUID() / Prisma's uuid().  The ids of the     *)
(* model are five sample UUIDs, with their true HMAC-SHA256 digests under  *)
(* the default IDENTITY_SECRET.                                            *)

\* "3f2b8c1e-7a4d-4e9b-a1c6-5d8e2f0b9a71"
Uuid1 ==
  << "3", "f", "2", "b", "8", "c", "1", "e", "-", "7", "a", "4", "d", "-", "4", "e", "9", "b", "-", "a", "1", "c", "6", "-",
     "5", "d", "8", "e", "2", "f", "0", "b", "9", "a", "7", "1" >>

\* HMAC-SHA256(IDENTITY_SECRET, Uuid1) as lower-case hex
Digest1 ==
  << "9", "a", "5", "f", "3", "f", "2", "5", "6", "9", "6", "1", "2", "8", "b", "6", "f", "d", "0", "0", "7", "3", "f", "4",
     "c", "2", "7", "3", "6", "c", "6", "6", "0", "0", "1", "3", "9", "d", "b", "f", "8", "1", "b", "c", "3", "3", "6", "a",
     "3", "3", "e", "e", "d", "e", "4", "a", "2", "a", "0", "c", "4", "d", "a", "6" >>

\* "9d4e1a70-2c5b-4f83-b6e2-0a1c3d5e7f92"
Uuid2 ==
  << "9", "d", "4", "e", "1", "a", "7", "0", "-", "2", "c", "5", "b", "-", "4", "f", "8", "3", "-", "b", "6", "e", "2", "-",
     "0", "a", "1", "c", "3", "d", "5", "e", "7", "f", "9", "2" >>

\* HMAC-SHA256(IDENTITY_SECRET, Uuid2) as lower-case hex
Digest2 ==
  << "d", "c", "b", "6", "d", "0", "3", "b", "b", "a", "7", "c", "9", "6", "5", "4", "4", "8", "9", "c", "b", "c", "d", "6",
     "0", "1", "a", "5", "0", "c", "f", "3", "2", "b", "c", "3", "f", "3", "7", "b", "4", "2", "6", "0", "c", "b", "8", "1",
     "e", "0", "d", "5", "d", "0", "6", "4", "e", "b", "d", "1", "3", "1", "5", "0" >>

\* "c7a59e02-6b1f-4d38-8e4a-f2b0d6c1a935"
Uuid3 ==
  << "c", "7", "a", "5", "9", "e", "0", "2", "-", "6", "b", "1", "f", "-", "4", "d", "3", "8", "-", "8", "e", "4", "a", "-",
     "f", "2", "b", "0", "d", "6", "c", "1", "a", "9", "3", "5" >>

\* HMAC-SHA256(IDENTITY_SECRET, Uuid3) as lower-case hex
Digest3 ==
  << "7", "b", "5", "b", "8", "e", "c", "e", "e", "6", "8", "e", "2", "1", "b", "6", "f", "0", "e", "d", "1", "c", "1", "7",
     "c", "6", "d", "c", "7", "8", "c", "c", "e", "4", "8", "5", "a", "2", "5", "7", "3", "f", "c", "d", "8", "a", "5", "9",
     "b", "6", "b", "5", "a", "1", "1", "c", "a", "1", "4", "d", "0", "f", "d", "1" >>

\* "51e8d3f6-0b7c-4a29-9f15-e4c2a8b6d073"
Uuid4 ==
  << "5", "1", "e", "8", "d", "3", "f", "6", "-", "0", "b", "7", "c", "-", "4", "a", "2", "9", "-", "9", "f", "1", "5", "-",
     "e", "4", "c", "2", "a", "8", "b", "6", "d", "0", "7", "3" >>

\* HMAC-SHA256(IDENTITY_SECRET, Uuid4) as lower-case hex
Digest4 ==
  << "e", "8", "5", "a", "1", "5", "2", "6", "b", "5", "d", "1", "b", "b", "c", "7", "d", "d", "e", "a", "4", "8", "9", "6",
     "6", "5", "a", "1", "3", "6", "a", "9", "b", "0", "7", "6", "6", "2", "d", "4", "a", "6", "7", "3", "5", "5", "5", "0",
     "8", "6", "b", "6", "4", "0", "5", "9", "2", "d", "c", "5", "7", "e", "8", "a" >>

\* "a06f4b9d-e3c1-4785-b2d7-19f5c0e8a364"
Uuid5 ==
  << "a", "0", "6", "f", "4", "b", "9", "d", "-", "e", "3", "c", "1", "-", "4", "7", "8", "5", "-", "b", "2", "d", "7", "-",
     "1", "9", "f", "5", "c", "0", "e", "8", "a", "3", "6", "4" >>

\* HMAC-SHA256(IDENTITY_SECRET, Uuid5) as lower-case hex
Digest5 ==
  << "1", "b", "8", "1", "8", "d", "0", "a", "e", "5", "7", "f", "d", "f", "e", "9", "5", "2", "6", "5", "d", "7", "e", "5",
     "c", "9", "3", "4", "f", "c", "e", "f", "4", "f", "8", "9", "6", "4", "1", "6", "4", "0", "0", "f", "f", "2", "6", "6",
     "2", "0", "b", "2", "7", "1", "e", "6", "0", "6", "6", "3", "7", "7", "6", "a" >>

VisitorIds ==
  << Uuid1, Uuid2, Uuid3, Uuid4, Uuid5 >>

----------------------------------------------------------------------------
(* Persistent-identity tokens *)

SIGNATURE_LENGTH == 16

\* one day, in the model's time unit (hours)
DayMs == 24

\* validatePersistentIdentity's default maxAge: one year
DefaultMaxAge ==
  365 * DayMs

\* crypto.createHmac('sha256', IDENTITY_SECRET).update(msg).digest('hex'):
\* the true digest for the sample ids, and for any other message 64
\* lower-case hex digits that depend on its length and characters
HmacSha256Hex(msg) ==
  CASE msg = Uuid1 -> Digest1
    [] msg = Uuid2 -> Digest2
    [] msg = Uuid3 -> Digest3
    [] msg = Uuid4 -> Digest4
    [] msg = Uuid5 -> Digest5
    [] OTHER ->
         [i \in 1..64 |->
            LowerHex[1 + ((7 * i + 3 * Len(msg)
                           + (IF msg = << >> THEN 0
                              ELSE HexValue(msg[1 + (i % Len(msg))]) + 1)) % 16)]]

signVisitorId(visitorId) ==
  SubSeq(HmacSha256Hex(visitorId), 1, SIGNATURE_LENGTH)

\* verifyVisitorId comparing the decoded bytes up to the shorter length,
\* without the throw of timingSafeEqual on buffers of different length
verifyVisitorIdNoThrow(visitorId, signature) ==
  IF ~Truthy(visitorId) \/ ~Truthy(signature) \/ Len(signature) # SIGNATURE_LENGTH
    THEN FALSE
    ELSE LET given    == BufferFromHex(signature)
             expected == BufferFromHex(signVisitorId(visitorId))
         IN  given = SubSeq(expected, 1, Len(given))

\* crypto.timingSafeEqual throws on buffers of different length; the catch
\* turns that into false
verifyVisitorId(visitorId, signature) ==
  IF ~Truthy(visitorId) \/ ~Truthy(signature) \/ Len(signature) # SIGNATURE_LENGTH
    THEN FALSE
    ELSE LET given    == BufferFromHex(signature)
             expected == BufferFromHex(signVisitorId(visitorId))
         IN  IF Len(given) # Len(expected) THEN FALSE ELSE given = expected

ParsedNull ==
  [isNull |-> TRUE, visitorId |-> NULL, signature |-> NULL, createdAt |-> 0, valid |-> FALSE]

parseSignedVisitorId(signedId) ==
  IF ~Truthy(signedId) THEN ParsedNull
  ELSE LET parts == Split(signedId, ".")
       IN  IF Len(parts) # 3 THEN ParsedNull
           ELSE LET createdAt == ParseInt(parts[3])
                IN  IF ~Truthy(parts[1]) \/ ~Truthy(parts[2]) \/ createdAt.isNaN
                      THEN ParsedNull
                      ELSE [isNull    |-> FALSE,
                            visitorId |-> parts[1],
                            signature |-> parts[2],
                            createdAt |-> createdAt.value,
                            valid     |-> verifyVisitorId(parts[1], parts[2])]

\* dateNow is Date.now()
createSignedVisitorId(visitorId, dateNow) ==
  visitorId \o << "." >> \o signVisitorId(visitorId) \o << "." >> \o NumberToString(dateNow)

validatePersistentIdentity(signedId, maxAge, dateNow) ==
  LET parsed == parseSignedVisitorId(signedId)
  IN  IF ~Truthy(signedId) \/ parsed.isNull \/ ~parsed.valid
        THEN [valid |-> FALSE, visitorId |-> NULL, needsRefresh |-> FALSE, refreshedId |-> NULL]
        ELSE LET age          == dateNow - parsed.createdAt
                 isExpired    == age > maxAge
                 needsRefresh == 2 * age > maxAge
             IN  [valid        |-> TRUE,
                  visitorId    |-> parsed.visitorId,
                  needsRefresh |-> needsRefresh \/ isExpired,
                  refreshedId  |-> IF needsRefresh
                                     THEN createSignedVisitorId(parsed.visitorId, dateNow)
                                     ELSE NULL]

linkPersistentIdentity(persistentId, fingerprintVisitorId, dateNow) ==
  LET validation == validatePersistentIdentity(persistentId, DefaultMaxAge, dateNow)
  IN  IF validation.valid /\ Truthy(validation.visitorId)
        THEN [visitorId              |-> validation.visitorId,
              persistentIdValid      |-> TRUE,
              shouldUpdatePersistent |-> validation.needsRefresh,
              newPersistentId        |-> validation.refreshedId]
        ELSE [visitorId              |-> fingerprintVisitorId,
              persistentIdValid      |-> FALSE,
              shouldUpdatePersistent |-> TRUE,
              newPersistentId        |-> createSignedVisitorId(fingerprintVisitorId, dateNow)]

----------------------------------------------------------------------------
(* Hashes.  A hash string is kept run-length encoded, as the sequence of   *)
(* its runs [c |-> character, n |-> length > 0] with adjacent runs of      *)
(* different characters, so that equal strings are equal values; CharAt   *)
(* gives a character.  NoHash is null/undefined, << >> the empty string.   *)

\* width of the three hex hashes (the zod schema's length(64))
HashLen == 64

NoHash ==
  << [c |-> "null", n |-> 0] >>

TruthyHash(s) ==
  s # NoHash /\ s # << >>

RECURSIVE StrLen(_)
StrLen(s) ==
  IF s = << >> THEN 0 ELSE s[1].n + StrLen(Tail(s))

RECURSIVE CharAt(_, _)
CharAt(s, i) ==
  IF i <= s[1].n THEN s[1].c ELSE CharAt(Tail(s), i - s[1].n)

\* the string of `len` characters that starts with k times `lead` and goes
\* on with `fill`
HashOf(lead, k, fill, len) ==
  IF k <= 0 \/ lead = fill THEN << [c |-> fill, n |-> len] >>
  ELSE IF k >= len THEN << [c |-> lead, n |-> len] >>
  ELSE << [c |-> lead, n |-> k], [c |-> fill, n |-> len - k] >>

\* hammingDistance throws on strings of unequal length: Throws stands for
\* the thrown Error
Throws ==
  0 - 1

\* the loop of hammingDistance, `distance++` for every position whose
\* characters differ, taken a run at a time: over the next m positions,
\* where both strings stay inside one run, the characters differ at all
\* m positions or at none
RECURSIVE Differences(_, _)
Differences(s1, s2) ==
  IF s1 = << >> \/ s2 = << >> THEN 0
  ELSE LET m  == IF s1[1].n < s2[1].n THEN s1[1].n ELSE s2[1].n
           r1 == IF s1[1].n = m THEN Tail(s1)
                 ELSE << [c |-> s1[1].c, n |-> s1[1].n - m] >> \o Tail(s1)
           r2 == IF s2[1].n = m THEN Tail(s2)
                 ELSE << [c |-> s2[1].c, n |-> s2[1].n - m] >> \o Tail(s2)
       IN  (IF s1[1].c # s2[1].c THEN m ELSE 0) + Differences(r1, r2)

\* hammingDistance without the check of the lengths: the loop runs over
\* s1 and reads undefined past the end of s2
hammingDistanceNoCheck(s1, s2) ==
  Differences(s1, s2) + (IF StrLen(s1) > StrLen(s2) THEN StrLen(s1) - StrLen(s2) ELSE 0)

hammingDistance(s1, s2) ==
  IF StrLen(s1) # StrLen(s2) THEN Throws ELSE Differences(s1, s2)

----------------------------------------------------------------------------
(* The hashes and clients that requests are made of *)

\* fingerprint hashes ("a" * 64, "d" * 64, "f" * 64); the engine only
\* compares them for equality
FingerprintPool ==
  << HashOf("a", 0, "a", HashLen), HashOf("d", 0, "d", HashLen), HashOf("f", 0, "f", HashLen) >>

\* browsers: their fuzzy hashes are at Hamming distances 8, 9 and 17 of
\* each other; the third one farbles and throttles its timers, so that it
\* reports a gpuScore of 0.05 where the others report 0.5
Browsers ==
  { [fuzzyHash |-> HashOf("e", 0, "b", HashLen),  isFarbled |-> FALSE, gpuScore |-> 50],
    [fuzzyHash |-> HashOf("e", 8, "b", HashLen),  isFarbled |-> FALSE, gpuScore |-> 50],
    [fuzzyHash |-> HashOf("e", 17, "b", HashLen), isFarbled |-> TRUE,  gpuScore |-> 5] }

\* devices: one without a stable hash and without a client address, one
\* with "c" * 64, one with a stable hash at distance 4 of that
Devices ==
  { [stableHash |-> NoHash,                       ipAddress |-> NULL],
    [stableHash |-> HashOf("9", 0, "c", HashLen), ipAddress |-> << "10.0.0.1" >>],
    [stableHash |-> HashOf("9", 4, "c", HashLen), ipAddress |-> << "10.0.0.2" >>] }

\* no GPU timing hash, or "7" * 64
GpuHashes ==
  { NoHash, HashOf("7", 0, "7", HashLen) }

----------------------------------------------------------------------------
(* Crowd-blending trust scorer (services/crowd-blending.ts) *)

SetMin(S) ==
  CHOOSE x \in S : \A y \in S : x <= y

SetMax(S) ==
  CHOOSE x \in S : \A y \in S : y <= x

\* Math.ceil(a / b) for a >= 0, b > 0
CeilDiv(a, b) ==
  (a + b - 1) \div b

\* firstSeen >= sevenDaysAgo
RecentSessions(sess, visitorId, dateNow) ==
  { i \in 1..Len(sess) :
      sess[i].visitorId = visitorId /\ sess[i].firstSeen >= dateNow - 7 * DayMs }

\* calculateCrowdBlendingScore with `score = ` for `score += ` in the time
\* span factor
calculateCrowdBlendingScoreTimeAssign(sess, visitorId, dateNow) ==
  LET recent == RecentSessions(sess, visitorId, dateNow)
  IN  IF recent = {}
        THEN [score |-> 0, uniqueIPs |-> 0, visitCount |-> 0, daySpan |-> 0,
              isTrusted |-> FALSE, trustLevel |-> "new"]
        ELSE
          LET uniqueIPs  == Cardinality({ sess[i].ipAddress : i \in recent } \ { NULL })
              timestamps == { sess[i].firstSeen : i \in recent }
              daySpan    == CeilDiv(SetMax(timestamps) - SetMin(timestamps), DayMs)
              visitCount == Cardinality(recent)
              visitF     == IF visitCount >= 10 THEN 40
                            ELSE IF visitCount >= 5 THEN 30
                            ELSE IF visitCount >= 3 THEN 20
                            ELSE IF visitCount >= 2 THEN 10 ELSE 0
              ipF        == IF uniqueIPs >= 3 THEN 40
                            ELSE IF uniqueIPs >= 2 THEN 30
                            ELSE IF uniqueIPs = 1 /\ visitCount >= 3 THEN 10 ELSE 0
              timeF      == IF daySpan >= 5 THEN 20
                            ELSE IF daySpan >= 3 THEN 15
                            ELSE IF daySpan >= 1 THEN 10 ELSE 0
              score      == IF timeF > 0 THEN timeF ELSE visitF + ipF
              isTrusted  == visitCount >= 3 /\ uniqueIPs >= 2
          IN  [score      |-> score,
               uniqueIPs  |-> uniqueIPs,
               visitCount |-> visitCount,
               daySpan    |-> daySpan,
               isTrusted  |-> isTrusted,
               trustLevel |-> IF score >= 70 THEN "verified"
                              ELSE IF isTrusted THEN "trusted"
                              ELSE IF visitCount >= 2 THEN "returning" ELSE "new"]

\* calculateCrowdBlendingScore without the visit count factor in the sum
calculateCrowdBlendingScoreNoVisitFactor(sess, visitorId, dateNow) ==
  LET recent == RecentSessions(sess, visitorId, dateNow)
  IN  IF recent = {}
        THEN [score |-> 0, uniqueIPs |-> 0, visitCount |-> 0, daySpan |-> 0,
              isTrusted |-> FALSE, trustLevel |-> "new"]
        ELSE
          LET uniqueIPs  == Cardinality({ sess[i].ipAddress : i \in recent } \ { NULL })
              timestamps == { sess[i].firstSeen : i \in recent }
              daySpan    == CeilDiv(SetMax(timestamps) - SetMin(timestamps), DayMs)
              visitCount == Cardinality(recent)
              visitF     == IF visitCount >= 10 THEN 40
                            ELSE IF visitCount >= 5 THEN 30
                            ELSE IF visitCount >= 3 THEN 20
                            ELSE IF visitCount >= 2 THEN 10 ELSE 0
              ipF        == IF uniqueIPs >= 3 THEN 40
                            ELSE IF uniqueIPs >= 2 THEN 30
                            ELSE IF uniqueIPs = 1 /\ visitCount >= 3 THEN 10 ELSE 0
              timeF      == IF daySpan >= 5 THEN 20
                            ELSE IF daySpan >= 3 THEN 15
                            ELSE IF daySpan >= 1 THEN 10 ELSE 0
              score      == ipF + timeF
              isTrusted  == visitCount >= 3 /\ uniqueIPs >= 2
          IN  [score      |-> score,
               uniqueIPs  |-> uniqueIPs,
               visitCount |-> visitCount,
               daySpan    |-> daySpan,
               isTrusted  |-> isTrusted,
               trustLevel |-> IF score >= 70 THEN "verified"
                              ELSE IF isTrusted THEN "trusted"
                              ELSE IF visitCount >= 2 THEN "returning" ELSE "new"]

\* calculateCrowdBlendingScore without the filter on null addresses
calculateCrowdBlendingScoreNullAddress(sess, visitorId, dateNow) ==
  LET recent == RecentSessions(sess, visitorId, dateNow)
  IN  IF recent = {}
        THEN [score |-> 0, uniqueIPs |-> 0, visitCount |-> 0, daySpan |-> 0,
              isTrusted |-> FALSE, trustLevel |-> "new"]
        ELSE
          LET uniqueIPs  == Cardinality({ sess[i].ipAddress : i \in recent })
              timestamps == { sess[i].firstSeen : i \in recent }
              daySpan    == CeilDiv(SetMax(timestamps) - SetMin(timestamps), DayMs)
              visitCount == Cardinality(recent)
              visitF     == IF visitCount >= 10 THEN 40
                            ELSE IF visitCount >= 5 THEN 30
                            ELSE IF visitCount >= 3 THEN 20
                            ELSE IF visitCount >= 2 THEN 10 ELSE 0
              ipF        == IF uniqueIPs >= 3 THEN 40
                            ELSE IF uniqueIPs >= 2 THEN 30
                            ELSE IF uniqueIPs = 1 /\ visitCount >= 3 THEN 10 ELSE 0
              timeF      == IF daySpan >= 5 THEN 20
                            ELSE IF daySpan >= 3 THEN 15
                            ELSE IF daySpan >= 1 THEN 10 ELSE 0
              score      == visitF + ipF + timeF
              isTrusted  == visitCount >= 3 /\ uniqueIPs >= 2
          IN  [score      |-> score,
               uniqueIPs  |-> uniqueIPs,
               visitCount |-> visitCount,
               daySpan    |-> daySpan,
               isTrusted  |-> isTrusted,
               trustLevel |-> IF score >= 70 THEN "verified"
                              ELSE IF isTrusted THEN "trusted"
                              ELSE IF visitCount >= 2 THEN "returning" ELSE "new"]

\* the score is kept in hundredths: every factor is a multiple of 0.05 and
\* Math.round(score * 100) / 100 returns the exact sum
calculateCrowdBlendingScore(sess, visitorId, dateNow) ==
  LET recent == RecentSessions(sess, visitorId, dateNow)
  IN  IF recent = {}
        THEN [score |-> 0, uniqueIPs |-> 0, visitCount |-> 0, daySpan |-> 0,
              isTrusted |-> FALSE, trustLevel |-> "new"]
        ELSE
          LET uniqueIPs  == Cardinality({ sess[i].ipAddress : i \in recent } \ { NULL })
              timestamps == { sess[i].firstSeen : i \in recent }
              daySpan    == CeilDiv(SetMax(timestamps) - SetMin(timestamps), DayMs)
              visitCount == Cardinality(recent)
              visitF     == IF visitCount >= 10 THEN 40
                            ELSE IF visitCount >= 5 THEN 30
                            ELSE IF visitCount >= 3 THEN 20
                            ELSE IF visitCount >= 2 THEN 10 ELSE 0
              ipF        == IF uniqueIPs >= 3 THEN 40
                            ELSE IF uniqueIPs >= 2 THEN 30
                            ELSE IF uniqueIPs = 1 /\ visitCount >= 3 THEN 10 ELSE 0
              timeF      == IF daySpan >= 5 THEN 20
                            ELSE IF daySpan >= 3 THEN 15
                            ELSE IF daySpan >= 1 THEN 10 ELSE 0
              score      == visitF + ipF + timeF
              isTrusted  == visitCount >= 3 /\ uniqueIPs >= 2
          IN  [score      |-> score,
               uniqueIPs  |-> uniqueIPs,
               visitCount |-> visitCount,
               daySpan    |-> daySpan,
               isTrusted  |-> isTrusted,
               trustLevel |-> IF score >= 70 THEN "verified"
                              ELSE IF isTrusted THEN "trusted"
                              ELSE IF visitCount >= 2 THEN "returning" ELSE "new"]

\* shouldTrustMatch with the case fuzzy-stable falling through to fuzzy
shouldTrustMatchFallThrough(crowdBlending, matchType) ==
  IF matchType = "fuzzy" \/ matchType = "fuzzy-stable"
    THEN crowdBlending.visitCount <= 5 \/ crowdBlending.score >= 20
    ELSE TRUE

\* shouldTrustMatch with `&&` for `||` in the fuzzy case
shouldTrustMatchBoth(crowdBlending, matchType) ==
  IF matchType = "fuzzy"
    THEN crowdBlending.visitCount <= 5 /\ crowdBlending.score >= 20
    ELSE TRUE

shouldTrustMatch(crowdBlending, matchType) ==
  IF matchType = "fuzzy"
    THEN crowdBlending.visitCount <= 5 \/ crowdBlending.score >= 20
    ELSE TRUE

\* 1.0 as a confidence
ConfOne == 10000000

\* getConfidenceBoost with the factor of stable, 0.10, in the case gpu
getConfidenceBoostGpuAsStable(crowdBlending, matchType) ==
  CASE matchType = "new"          -> 0
    [] matchType = "exact"        -> crowdBlending.score * 5000
    [] matchType = "stable"       -> crowdBlending.score * 10000
    [] matchType = "gpu"          -> crowdBlending.score * 10000
    [] matchType = "fuzzy-stable" -> crowdBlending.score * 15000
    [] matchType = "fuzzy"        -> crowdBlending.score * 20000
    [] OTHER                      -> 0

\* score * factor, in units of 1e-7 (score is in hundredths)
getConfidenceBoost(crowdBlending, matchType) ==
  CASE matchType = "new"          -> 0
    [] matchType = "exact"        -> crowdBlending.score * 5000
    [] matchType = "stable"       -> crowdBlending.score * 10000
    [] matchType = "gpu"          -> crowdBlending.score * 8000
    [] matchType = "fuzzy-stable" -> crowdBlending.score * 15000
    [] matchType = "fuzzy"        -> crowdBlending.score * 20000
    [] OTHER                      -> 0

\* Math.round(x * 1000) / 1000 for x >= 0
Round3(x) ==
  ((x + 5000) \div 10000) * 10000

\* 1 - distance / 64
FuzzyBase(distance) ==
  ConfOne - (distance * ConfOne) \div 64

\* applyMatchValidation without the Math.min(1.0, ...)
applyMatchValidationNoCap(sess, visitorId, matchType, baseConfidence, dateNow) ==
  LET crowdBlending == calculateCrowdBlendingScore(sess, visitorId, dateNow)
  IN  IF ~shouldTrustMatch(crowdBlending, matchType)
        THEN [confidence    |-> (baseConfidence * 7) \div 10,
              crowdBlending |-> crowdBlending]
        ELSE [confidence    |-> Round3(baseConfidence
                                       + getConfidenceBoost(crowdBlending, matchType)),
              crowdBlending |-> crowdBlending]

applyMatchValidation(sess, visitorId, matchType, baseConfidence, dateNow) ==
  LET crowdBlending == calculateCrowdBlendingScore(sess, visitorId, dateNow)
  IN  IF ~shouldTrustMatch(crowdBlending, matchType)
        THEN [confidence    |-> (baseConfidence * 7) \div 10,
              crowdBlending |-> crowdBlending]
        ELSE
          LET boost    == getConfidenceBoost(crowdBlending, matchType)
              sum      == baseConfidence + boost
              adjusted == IF sum > ConfOne THEN ConfOne ELSE sum
          IN  [confidence |-> Round3(adjusted), crowdBlending |-> crowdBlending]

----------------------------------------------------------------------------
(* The store (Prisma over PostgreSQL).  Row ids stand for Prisma's uuid()  *)
(* values: the id of a fingerprint or session row is its position in the   *)
(* table; so is the id of a visitor, whose UUID is VisitorIds[id].         *)

Reverse(s) ==
  [i \in 1..Len(s) |-> s[Len(s) + 1 - i]]

\* take: n
Take(s, n) ==
  SubSeq(s, 1, IF Len(s) < n THEN Len(s) ELSE n)

\* findFirst({ where: { fingerprintHash }, orderBy: { createdAt: 'desc' } }):
\* the position of the row, 0 for null
FindFirstByFingerprintHash(fps, hash) ==
  LET hits == { i \in 1..Len(fps) : fps[i].fingerprintHash = hash }
  IN  IF hits = {} THEN 0 ELSE SetMax(hits)

\* FindFirstByStableHash with the where clause on the column fuzzyHash
FindFirstByStableHashOnFuzzy(fps, hash) ==
  LET hits == { i \in 1..Len(fps) : fps[i].fuzzyHash = hash }
  IN  IF hits = {} THEN 0 ELSE SetMax(hits)

FindFirstByStableHash(fps, hash) ==
  LET hits == { i \in 1..Len(fps) : fps[i].stableHash = hash }
  IN  IF hits = {} THEN 0 ELSE SetMax(hits)

FindFirstByGpuTimingHash(fps, hash) ==
  LET hits == { i \in 1..Len(fps) : fps[i].gpuTimingHash = hash }
  IN  IF hits = {} THEN 0 ELSE SetMax(hits)

\* the scan windows of layers 4 and 5
StableScanLimit == 500

FuzzyScanLimit == 1000

\* findMany({ where: { stableHash: { not: null } }, orderBy: desc, take: 500 })
StableCandidates(fps) ==
  LET IsCandidate(r) == r.stableHash # NoHash
      Select(r)      == [id |-> r.id, visitorId |-> r.visitorId, hash |-> r.stableHash]
      rows           == Take(SelectSeq(Reverse(fps), IsCandidate), StableScanLimit)
  IN  [i \in 1..Len(rows) |-> Select(rows[i])]

\* findMany({ orderBy: desc, take: 1000 })
FuzzyCandidates(fps) ==
  LET rows == Take(Reverse(fps), FuzzyScanLimit)
  IN  [i \in 1..Len(rows) |-> [id |-> rows[i].id, visitorId |-> rows[i].visitorId,
                               hash |-> rows[i].fuzzyHash]]

stableFuzzyThreshold == 4

fuzzyThreshold == 8

\* bestMatch = null
NoBest ==
  [id |-> 0, visitorId |-> 0, distance |-> Throws]

\* BestMatchLoop in which a candidate replaces the best one when it is as
\* near (`<=` for `<`)
RECURSIVE BestMatchLoopAsNear(_, _, _, _, _)
BestMatchLoopAsNear(candidates, hash, threshold, skipFalsy, best) ==
  IF candidates = << >> THEN best
  ELSE
    LET c        == Head(candidates)
        distance == hammingDistance(c.hash, hash)
        taken    == /\ ~(skipFalsy /\ ~TruthyHash(c.hash))
                    /\ distance # Throws
                    /\ distance <= threshold
                    /\ (best = NoBest \/ distance <= best.distance)
    IN  BestMatchLoopAsNear(Tail(candidates), hash, threshold, skipFalsy,
                            IF taken
                              THEN [id |-> c.id, visitorId |-> c.visitorId, distance |-> distance]
                              ELSE best)

\* the for loop over the candidates of layer 4 or 5, most recent first: a
\* candidate replaces the best one only when strictly nearer; a candidate
\* whose hash is empty (layer 4's if) or on which hammingDistance throws is
\* skipped
RECURSIVE BestMatchLoop(_, _, _, _, _)
BestMatchLoop(candidates, hash, threshold, skipFalsy, best) ==
  IF candidates = << >> THEN best
  ELSE
    LET c        == Head(candidates)
        distance == hammingDistance(c.hash, hash)
        taken    == /\ ~(skipFalsy /\ ~TruthyHash(c.hash))
                    /\ distance # Throws
                    /\ distance <= threshold
                    /\ (best = NoBest \/ distance < best.distance)
    IN  BestMatchLoop(Tail(candidates), hash, threshold, skipFalsy,
                      IF taken
                        THEN [id |-> c.id, visitorId |-> c.visitorId, distance |-> distance]
                        ELSE best)

\* createSession that updates the visitor's last session when there is one
\* ("Create or update a session")
createSessionOrUpdate(sess, visitorId, fingerprintId, ipAddress, dateNow) ==
  LET own == { i \in 1..Len(sess) : sess[i].visitorId = visitorId }
  IN  IF own = {}
        THEN Append(sess, [id |-> Len(sess) + 1, visitorId |-> visitorId,
                           fingerprintId |-> fingerprintId, ipAddress |-> ipAddress,
                           firstSeen |-> dateNow])
        ELSE [sess EXCEPT ![SetMax(own)] =
                [sess[SetMax(own)] EXCEPT !.fingerprintId = fingerprintId,
                                          !.ipAddress = ipAddress]]

\* createSession with the two ids passed in each other's place
createSessionSwapped(sess, visitorId, fingerprintId, ipAddress, dateNow) ==
  Append(sess, [id            |-> Len(sess) + 1,
                visitorId     |-> fingerprintId,
                fingerprintId |-> visitorId,
                ipAddress     |-> ipAddress,
                firstSeen     |-> dateNow])

\* prisma.session.create: firstSeen defaults to now()
createSession(sess, visitorId, fingerprintId, ipAddress, dateNow) ==
  Append(sess, [id            |-> Len(sess) + 1,
                visitorId     |-> visitorId,
                fingerprintId |-> fingerprintId,
                ipAddress     |-> ipAddress,
                firstSeen     |-> dateNow])

\* createFingerprint that also brings the confidence of the visitor's
\* earlier rows up to date
createFingerprintRefreshing(fps, visitorId, input, validatedGpuTimingHash, confidence, dateNow) ==
  Append([i \in 1..Len(fps) |->
            IF fps[i].visitorId = visitorId
              THEN [fps[i] EXCEPT !.confidence = confidence]
              ELSE fps[i]],
         [id              |-> Len(fps) + 1,
          visitorId       |-> visitorId,
          fingerprintHash |-> input.fingerprint,
          fuzzyHash       |-> input.fuzzyHash,
          stableHash      |-> input.stableHash,
          gpuTimingHash   |-> validatedGpuTimingHash,
          confidence      |-> confidence,
          isFarbled       |-> input.isFarbled,
          createdAt       |-> dateNow])

\* createFingerprint that leaves isFarbled to the schema's default
createFingerprintDefaultFarbled(fps, visitorId, input, validatedGpuTimingHash, confidence, dateNow) ==
  Append(fps, [id              |-> Len(fps) + 1,
               visitorId       |-> visitorId,
               fingerprintHash |-> input.fingerprint,
               fuzzyHash       |-> input.fuzzyHash,
               stableHash      |-> input.stableHash,
               gpuTimingHash   |-> validatedGpuTimingHash,
               confidence      |-> confidence,
               isFarbled       |-> FALSE,
               createdAt       |-> dateNow])

\* prisma.fingerprint.create in layers 2 to 5, and the nested create of
\* layer 6
createFingerprint(fps, visitorId, input, validatedGpuTimingHash, confidence, dateNow) ==
  Append(fps, [id              |-> Len(fps) + 1,
               visitorId       |-> visitorId,
               fingerprintHash |-> input.fingerprint,
               fuzzyHash       |-> input.fuzzyHash,
               stableHash      |-> input.stableHash,
               gpuTimingHash   |-> validatedGpuTimingHash,
               confidence      |-> confidence,
               isFarbled       |-> input.isFarbled,
               createdAt       |-> dateNow])

\* prisma.visitor.create with the schema's defaults
createVisitor(vis, dateNow) ==
  Append(vis, [id              |-> Len(vis) + 1,
               trustLevel      |-> "NEW",
               crowdScore      |-> 0,
               uniqueIPs       |-> 0,
               visitCount      |-> 0,
               createdAt       |-> dateNow,
               lastScoreUpdate |-> 0 - 1])

trustLevelMap(level) ==
  CASE level = "new"       -> "NEW"
    [] level = "returning" -> "RETURNING"
    [] level = "trusted"   -> "TRUSTED"
    [] level = "verified"  -> "VERIFIED"

\* prisma.visitor.update({ where: { id } }); a missing row makes the promise
\* reject, which the caller logs
updateVisitorTrust(vis, visitorId, crowdBlending, dateNow) ==
  [i \in 1..Len(vis) |->
     IF vis[i].id = visitorId
       THEN [vis[i] EXCEPT !.trustLevel      = trustLevelMap(crowdBlending.trustLevel),
                           !.crowdScore      = crowdBlending.score,
                           !.uniqueIPs       = crowdBlending.uniqueIPs,
                           !.visitCount      = crowdBlending.visitCount,
                           !.lastScoreUpdate = dateNow]
       ELSE vis[i]]

\* today.setHours(0, 0, 0, 0)
Midnight(dateNow) ==
  dateNow - (dateNow % DayMs)

StatsDelta(matchType) ==
  [totalVisitors      |-> 1,
   uniqueVisitors     |-> IF matchType = "new" THEN 1 ELSE 0,
   totalFingerprints  |-> 1,
   exactMatches       |-> IF matchType = "exact" THEN 1 ELSE 0,
   stableMatches      |-> IF matchType = "stable" THEN 1 ELSE 0,
   gpuMatches         |-> IF matchType = "gpu" THEN 1 ELSE 0,
   fuzzyStableMatches |-> IF matchType = "fuzzy-stable" THEN 1 ELSE 0,
   fuzzyMatches       |-> IF matchType = "fuzzy" THEN 1 ELSE 0,
   newVisitors        |-> IF matchType = "new" THEN 1 ELSE 0]

\* updateStats whose update branch writes the values of `create` instead
\* of incrementing
updateStatsNoIncrement(st, matchType, dateNow) ==
  LET today == Midnight(dateNow)
  IN  [t \in DOMAIN st \cup { today } |-> IF t = today THEN StatsDelta(matchType) ELSE st[t]]

\* prisma.stats.upsert({ where: { date: today } })
updateStats(st, matchType, dateNow) ==
  LET today == Midnight(dateNow)
      d     == StatsDelta(matchType)
  IN  IF today \in DOMAIN st
        THEN [st EXCEPT ![today] =
                [f \in DOMAIN d |-> st[today][f] + d[f]]]
        ELSE [t \in DOMAIN st \cup { today } |-> IF t = today THEN d ELSE st[t]]

----------------------------------------------------------------------------
(* The matching engine: matchFingerprint (services/identity.ts:471-767) *)

\* ValidatedGpuTimingHash with `gpuScore > 0` (the code's comment) for
\* `gpuScore > 0.1`
ValidatedGpuTimingHashAnyScore(input) ==
  IF TruthyHash(input.gpuTimingHash) /\ input.gpuSupported /\ input.gpuScore > 0
    THEN input.gpuTimingHash
    ELSE NoHash

\* isGpuTimingValid ? gpuTimingHash : undefined
ValidatedGpuTimingHash(input) ==
  IF TruthyHash(input.gpuTimingHash) /\ input.gpuSupported /\ input.gpuScore > 10
    THEN input.gpuTimingHash
    ELSE NoHash

\* ExactMatch looking the fuzzy hash up in the column fingerprintHash
ExactMatchByFuzzyHash(fps, input) ==
  FindFirstByFingerprintHash(fps, input.fuzzyHash)

\* the five lookups, each as the code runs it when it gets that far
ExactMatch(fps, input) ==
  FindFirstByFingerprintHash(fps, input.fingerprint)

\* StableMatch without `if (stableHash)`: Prisma takes an undefined value
\* in `where` as no condition, and findFirst returns the most recent row
StableMatchUnguarded(fps, input) ==
  IF input.stableHash = NoHash
    THEN Len(fps)
    ELSE FindFirstByStableHash(fps, input.stableHash)

StableMatch(fps, input) ==
  IF TruthyHash(input.stableHash) THEN FindFirstByStableHash(fps, input.stableHash) ELSE 0

GpuMatch(fps, input) ==
  IF TruthyHash(ValidatedGpuTimingHash(input))
    THEN FindFirstByGpuTimingHash(fps, ValidatedGpuTimingHash(input))
    ELSE 0

BestStableMatch(fps, input) ==
  IF TruthyHash(input.stableHash)
    THEN BestMatchLoop(StableCandidates(fps), input.stableHash, stableFuzzyThreshold,
                       TRUE, NoBest)
    ELSE NoBest

\* BestMatch with `distance < fuzzyThreshold` for `distance <= fuzzyThreshold`
BestMatchBelowThreshold(fps, input) ==
  BestMatchLoop(FuzzyCandidates(fps), input.fuzzyHash, fuzzyThreshold - 1, FALSE, NoBest)

BestMatch(fps, input) ==
  BestMatchLoop(FuzzyCandidates(fps), input.fuzzyHash, fuzzyThreshold, FALSE, NoBest)

\* Terminal with the GPU layer tried before the stable layer
TerminalGpuFirst(exactHit, stableHit, gpuHit, fuzzyStableHit, fuzzyHit) ==
  IF exactHit THEN "exact"
  ELSE IF gpuHit THEN "gpu"
  ELSE IF stableHit THEN "stable"
  ELSE IF fuzzyStableHit THEN "fuzzy-stable"
  ELSE IF fuzzyHit THEN "fuzzy"
  ELSE "new"

\* the order of the if statements: the first lookup that returned a row
\* decides the terminal
Terminal(exactHit, stableHit, gpuHit, fuzzyStableHit, fuzzyHit) ==
  IF exactHit THEN "exact"
  ELSE IF stableHit THEN "stable"
  ELSE IF gpuHit THEN "gpu"
  ELSE IF fuzzyStableHit THEN "fuzzy-stable"
  ELSE IF fuzzyHit THEN "fuzzy"
  ELSE "new"

\* base confidence of layers 2 and 3
StableBase == 9500000

GpuBase == 9200000

Outcome(vis, fps, sess, matchType, confidence, visitorId, fingerprintId, isNewVisitor) ==
  [visitors     |-> vis,
   fingerprints |-> fps,
   sessions     |-> sess,
   result       |-> [matchType     |-> matchType,
                     confidence    |-> confidence,
                     visitorId     |-> visitorId,
                     fingerprintId |-> fingerprintId,
                     isNewVisitor  |-> isNewVisitor]]

\* layer 1: the session is written first, then the validation reads the
\* sessions; no fingerprint row is written
ExactTerminal(vis, fps, sess, input, row, dateNow) ==
  LET sess1      == createSession(sess, row.visitorId, row.id, input.ipAddress, dateNow)
      validation == applyMatchValidation(sess1, row.visitorId, "exact", ConfOne, dateNow)
      vis1       == updateVisitorTrust(vis, row.visitorId, validation.crowdBlending, dateNow)
  IN  Outcome(vis1, fps, sess1, "exact", validation.confidence, row.visitorId, row.id, FALSE)

\* layers 2 to 5: validation, fingerprint row, session, trust cache
MatchedTerminal(vis, fps, sess, input, visitorId, matchType, baseConfidence, dateNow) ==
  LET validation == applyMatchValidation(sess, visitorId, matchType, baseConfidence, dateNow)
      fps1       == createFingerprint(fps, visitorId, input, ValidatedGpuTimingHash(input),
                                      validation.confidence, dateNow)
      newId      == fps1[Len(fps1)].id
      sess1      == createSession(sess, visitorId, newId, input.ipAddress, dateNow)
      vis1       == updateVisitorTrust(vis, visitorId, validation.crowdBlending, dateNow)
  IN  Outcome(vis1, fps1, sess1, matchType, validation.confidence, visitorId, newId, FALSE)

\* layer 6: a visitor with its first fingerprint row, then the session
NewTerminal(vis, fps, sess, input, dateNow) ==
  LET vis1  == createVisitor(vis, dateNow)
      newV  == vis1[Len(vis1)].id
      fps1  == createFingerprint(fps, newV, input, ValidatedGpuTimingHash(input),
                                 ConfOne, dateNow)
      newId == fps1[Len(fps1)].id
      sess1 == createSession(sess, newV, newId, input.ipAddress, dateNow)
  IN  Outcome(vis1, fps1, sess1, "new", ConfOne, newV, newId, TRUE)

matchFingerprint(vis, fps, sess, input, dateNow) ==
  LET exactMatch      == ExactMatch(fps, input)
      stableMatch     == StableMatch(fps, input)
      gpuMatch        == GpuMatch(fps, input)
      bestStableMatch == BestStableMatch(fps, input)
      bestMatch       == BestMatch(fps, input)
      terminal        == Terminal(exactMatch # 0, stableMatch # 0, gpuMatch # 0,
                                  bestStableMatch # NoBest, bestMatch # NoBest)
  IN  CASE terminal = "exact" ->
             ExactTerminal(vis, fps, sess, input, fps[exactMatch], dateNow)
        [] terminal = "stable" ->
             MatchedTerminal(vis, fps, sess, input, fps[stableMatch].visitorId,
                             "stable", StableBase, dateNow)
        [] terminal = "gpu" ->
             MatchedTerminal(vis, fps, sess, input, fps[gpuMatch].visitorId,
                             "gpu", GpuBase, dateNow)
        [] terminal = "fuzzy-stable" ->
             MatchedTerminal(vis, fps, sess, input, bestStableMatch.visitorId,
                             "fuzzy-stable", FuzzyBase(bestStableMatch.distance), dateNow)
        [] terminal = "fuzzy" ->
             MatchedTerminal(vis, fps, sess, input, bestMatch.visitorId,
                             "fuzzy", FuzzyBase(bestMatch.distance), dateNow)
        [] OTHER ->
             NewTerminal(vis, fps, sess, input, dateNow)

----------------------------------------------------------------------------
(* POST /api/fingerprint (routes/fingerprint.ts:38-142) *)

\* fingerprintSchema.safeParse: z.string().length(64), optional for the
\* stable and GPU hashes.  The schema has no persistentId key: zod strips it.
SchemaAccepts(body) ==
  /\ StrLen(body.fingerprint) = HashLen
  /\ StrLen(body.fuzzyHash) = HashLen
  /\ body.stableHash = NoHash \/ StrLen(body.stableHash) = HashLen
  /\ body.gpuTimingHash = NoHash \/ StrLen(body.gpuTimingHash) = HashLen

NoRequest ==
  [fingerprint |-> << >>, fuzzyHash |-> << >>, stableHash |-> NoHash,
   gpuTimingHash |-> NoHash, gpuSupported |-> FALSE, gpuScore |-> 0,
   isFarbled |-> FALSE, ipAddress |-> NULL, persistentId |-> NULL]

NoResponse ==
  [status |-> 0, visitorId |-> 0, confidence |-> 0, matchType |-> "none",
   requestId |-> 0, isNewVisitor |-> FALSE]

\* how many accepted requests a run may hold
MaxRequests == 3

\* Respond with the two ids of the result in each other's place in res.json
RespondSwapped(out) ==
  /\ visitors' = out.visitors
  /\ fingerprints' = out.fingerprints
  /\ sessions' = out.sessions
  /\ stats' = updateStats(stats, out.result.matchType, now)
  /\ res' = [status       |-> 200,
             visitorId    |-> out.result.fingerprintId,
             confidence   |-> out.result.confidence,
             matchType    |-> out.result.matchType,
             requestId    |-> out.result.visitorId,
             isNewVisitor |-> out.result.isNewVisitor]

\* the store after matchFingerprint and updateStats, and res.json
Respond(out) ==
  /\ visitors' = out.visitors
  /\ fingerprints' = out.fingerprints
  /\ sessions' = out.sessions
  /\ stats' = updateStats(stats, out.result.matchType, now)
  /\ res' = [status       |-> 200,
             visitorId    |-> out.result.visitorId,
             confidence   |-> out.result.confidence,
             matchType    |-> out.result.matchType,
             requestId    |-> out.result.fingerprintId,
             isNewVisitor |-> out.result.isNewVisitor]

\* the handler, with updateStats and updateVisitorTrust run to completion
Post(body) ==
  /\ req' = body
  /\ pre' = [visitors |-> Len(visitors), fingerprints |-> Len(fingerprints),
             sessions |-> Len(sessions), at |-> now]
  /\ IF ~SchemaAccepts(body)
       THEN /\ res' = [NoResponse EXCEPT !.status = 400]
            /\ UNCHANGED << visitors, fingerprints, sessions, stats >>
       ELSE Respond(matchFingerprint(visitors, fingerprints, sessions, body, now))
  /\ UNCHANGED << now, tin, tout, asyncVars >>

\* the clock advances between requests
TickHours == 12

MaxClock == 12

Tick ==
  /\ now < MaxClock
  /\ now' = now + TickHours
  /\ UNCHANGED << visitors, fingerprints, sessions, stats, req, res, pre, tin, tout, asyncVars >>

----------------------------------------------------------------------------
(* Requests.  A request body is put together from a fingerprint hash, a    *)
(* browser, a device and a GPU timing hash.                                *)

\* a request carries a fingerprint hash the store holds, or the first of
\* the pool it does not hold
FingerprintChoices(fps) ==
  LET n      == Len(FingerprintPool)
      used   == { i \in 1..n : \E j \in 1..Len(fps) :
                                 fps[j].fingerprintHash = FingerprintPool[i] }
      unused == (1..n) \ used
  IN  { FingerprintPool[i] : i \in used }
        \cup (IF unused = {} THEN {} ELSE { FingerprintPool[SetMin(unused)] })

Body(fp, browser, device, gpu, token) ==
  [fingerprint   |-> fp,
   fuzzyHash     |-> browser.fuzzyHash,
   stableHash    |-> device.stableHash,
   gpuTimingHash |-> gpu,
   gpuSupported  |-> gpu # NoHash,
   gpuScore      |-> browser.gpuScore,
   isFarbled     |-> browser.isFarbled,
   ipAddress     |-> device.ipAddress,
   persistentId  |-> token]

\* a body the schema rejects: a fingerprint of 63 characters
ShortBody ==
  [NoRequest EXCEPT !.fingerprint = HashOf("a", 0, "a", HashLen - 1),
                    !.fuzzyHash   = HashOf("e", 0, "b", HashLen)]

Submissions ==
  { Body(fp, browser, device, gpu, NULL) :
      fp \in FingerprintChoices(fingerprints), browser \in Browsers,
      device \in Devices, gpu \in GpuHashes }

\* the client of demo/app/page.tsx sends back, as persistentId, the token
\* of a visitor id the server answered with earlier
SignedTokens ==
  { createSignedVisitorId(VisitorIds[i], now) : i \in 1..Len(visitors) }

SignedSubmissions ==
  { Body(fp, browser, device, NoHash, token) :
      fp \in FingerprintChoices(fingerprints), browser \in Browsers,
      device \in { d \in Devices : d.stableHash = NoHash },
      token \in { NULL } \cup SignedTokens }

----------------------------------------------------------------------------
(* Specifications of the engine *)

TokenIdle ==
  [op |-> "none"]

\* no handler in flight, no promise pending, no scorer call made
NoHandlers ==
  << >>

NoPending ==
  {}

ScorerIdle ==
  [op |-> "none"]

Init ==
  /\ visitors = << >>
  /\ fingerprints = << >>
  /\ sessions = << >>
  /\ stats = << >>
  /\ now = 0
  /\ req = NoRequest
  /\ res = NoResponse
  /\ pre = [visitors |-> 0, fingerprints |-> 0, sessions |-> 0, at |-> 0]
  /\ tin = TokenIdle
  /\ tout = TokenIdle
  /\ handlers = NoHandlers
  /\ pending = NoPending
  /\ sc = ScorerIdle
  /\ fn = [op |-> "none"]

\* a request the schema accepts
Request ==
  /\ Len(sessions) < MaxRequests
  /\ \E body \in Submissions : Post(body)

\* a request the schema rejects
Reject ==
  Post(ShortBody)

\* a request that carries a persistentId
SignedRequest ==
  /\ Len(sessions) < MaxRequests
  /\ \E body \in SignedSubmissions : Post(body)

Next ==
  Request

Spec ==
  Init /\ [][Next]_vars

\* the engine with rejected requests and with the clock advancing between
\* requests
NextClock ==
  \/ Request
  \/ Reject
  \/ Tick

SpecClock ==
  Init /\ [][NextClock]_vars

\* the engine with clients that send their token
NextSigned ==
  SignedRequest

SpecSigned ==
  Init /\ [][NextSigned]_vars

----------------------------------------------------------------------------
(* The token layer on its own: a client holds the token the server issued  *)
(* for a visitor id (tin); tout is what the last call of a token function  *)
(* returned, until the caller has taken it.                                *)

\* how far the clock of the token layer runs, in half max-ages
MaxTokenTicks == 3

HalfAge ==
  DefaultMaxAge \div 2

\* createSignedVisitorId(v): the server issues a token, the client stores it
Issue(v) ==
  /\ tout = TokenIdle
  /\ tin' = [op |-> "token", visitor |-> v,
             token |-> createSignedVisitorId(VisitorIds[v], now)]
  /\ UNCHANGED << engineVars, tout, asyncVars >>

\* parseSignedVisitorId(token)
Parse ==
  /\ tin.op = "token" /\ tout = TokenIdle
  /\ tout' = [op |-> "parse", parsed |-> parseSignedVisitorId(tin.token)]
  /\ UNCHANGED << engineVars, tin, asyncVars >>

\* verifyVisitorId(v, s), s being the token's signature (pos = 0) or the
\* signature with the character at pos replaced by another one
Verify ==
  /\ tin.op = "token" /\ tout = TokenIdle
  /\ LET parsed == parseSignedVisitorId(tin.token)
     IN  \E pos \in 0..SIGNATURE_LENGTH, ch \in Alphabet :
           LET s == IF pos = 0 THEN parsed.signature
                    ELSE [parsed.signature EXCEPT ![pos] = ch]
           IN  /\ pos = 0 => ch = "0"
               /\ pos # 0 => parsed.signature[pos] # ch
               /\ tout' = [op |-> "verify", signature |-> s, changed |-> pos,
                           ok |-> verifyVisitorId(parsed.visitorId, s)]
  /\ UNCHANGED << engineVars, tin, asyncVars >>

\* validatePersistentIdentity(token) with the default maxAge
Validate ==
  /\ tin.op = "token" /\ tout = TokenIdle
  /\ tout' = [op |-> "validate", maxAge |-> DefaultMaxAge,
              result |-> validatePersistentIdentity(tin.token, DefaultMaxAge, now)]
  /\ UNCHANGED << engineVars, tin, asyncVars >>

\* the caller takes the returned value
Return ==
  /\ tout # TokenIdle
  /\ tout' = TokenIdle
  /\ UNCHANGED << engineVars, tin, asyncVars >>

\* half a max-age passes
TokenTick ==
  /\ tout = TokenIdle
  /\ now < MaxTokenTicks * HalfAge
  /\ now' = now + HalfAge
  /\ UNCHANGED << visitors, fingerprints, sessions, stats, req, res, pre, tin, tout, asyncVars >>

NextToken ==
  \/ \E v \in 1..Len(VisitorIds) : Issue(v)
  \/ Parse
  \/ Verify
  \/ Validate
  \/ Return
  \/ TokenTick

SpecToken ==
  Init /\ [][NextToken]_vars


----------------------------------------------------------------------------
(* Tokens as clients present them: absent, cut short, extended, with a     *)
(* timestamp that is no number, with a wrong signature, or as issued.      *)

\* the last character of a signature replaced by another hex digit
WrongSignatureOf(signature) ==
  [signature EXCEPT ![Len(signature)] =
     IF signature[Len(signature)] = "0" THEN "1" ELSE "0"]

PresentedTokens(v, dateNow) ==
  LET id        == VisitorIds[v]
      signature == signVisitorId(id)
      timestamp == NumberToString(dateNow)
      dot       == << "." >>
  IN  { NULL,
        << >>,
        id \o dot \o signature,
        id \o dot \o signature \o dot \o timestamp \o dot \o << "0" >>,
        id \o dot \o signature \o dot,
        id \o dot \o signature \o dot \o << "x" >>,
        id \o dot \o signature \o dot \o timestamp \o << "x" >>,
        id \o dot \o WrongSignatureOf(signature) \o dot \o timestamp,
        createSignedVisitorId(id, dateNow) }

\* how many visitor ids the presented tokens are made for
MaxPresenters == 2

\* a client presents a token
Present(v) ==
  /\ tout = TokenIdle
  /\ \E token \in PresentedTokens(v, now) :
       tin' = [op |-> "token", visitor |-> v, token |-> token]
  /\ UNCHANGED << engineVars, tout, asyncVars >>

\* POST /api/fingerprint with the presented token as persistentId
PresentedRequest ==
  /\ tin.op = "token" /\ tout = TokenIdle
  /\ Len(sessions) < MaxRequests
  /\ \E fp \in FingerprintChoices(fingerprints), browser \in Browsers :
       Post(Body(fp, browser, [stableHash |-> NoHash, ipAddress |-> NULL], NoHash, tin.token))

NextPresented ==
  \/ \E v \in 1..MaxPresenters : Present(v)
  \/ Validate
  \/ Return
  \/ PresentedRequest

SpecPresented ==
  Init /\ [][NextPresented]_vars

\* the client rewrites the created-at part of the token it holds: the
\* token keeps its visitor id and its signature and gets another time
Redate ==
  /\ tin.op = "token" /\ tout = TokenIdle
  /\ LET parts == Split(tin.token, ".")
     IN  \E k \in 0..MaxTokenTicks :
           /\ NumberToString(k * HalfAge) # parts[3]
           /\ tin' = [op |-> "redated", visitor |-> tin.visitor, issued |-> tin.token,
                      token |-> parts[1] \o << "." >> \o parts[2] \o << "." >>
                                  \o NumberToString(k * HalfAge)]
  /\ UNCHANGED << engineVars, tout, asyncVars >>

\* validatePersistentIdentity(token) on the rewritten token
ValidateRedated ==
  /\ tin.op = "redated" /\ tout = TokenIdle
  /\ tout' = [op |-> "validate", maxAge |-> DefaultMaxAge,
              result |-> validatePersistentIdentity(tin.token, DefaultMaxAge, now)]
  /\ UNCHANGED << engineVars, tin, asyncVars >>

NextRedated ==
  \/ \E v \in 1..Len(VisitorIds) : Issue(v)
  \/ Redate
  \/ ValidateRedated
  \/ Return
  \/ TokenTick

SpecRedated ==
  Init /\ [][NextRedated]_vars

----------------------------------------------------------------------------
(* Submissions whose hashes are not 64 hex digits *)

\* bodies with a fingerprint of 63 or 65 characters, with 64 characters
\* that are no hex digits in one of the three hashes, or with a stable hash
\* of 63 characters
InvalidSubmissions ==
  LET base == Body(HashOf("a", 0, "a", HashLen),
                   [fuzzyHash |-> HashOf("e", 0, "b", HashLen), isFarbled |-> FALSE,
                    gpuScore |-> 50],
                   [stableHash |-> HashOf("9", 0, "c", HashLen), ipAddress |-> NULL],
                   NoHash, NULL)
  IN  { [base EXCEPT !.fingerprint = HashOf("a", 0, "a", HashLen - 1)],
        [base EXCEPT !.fingerprint = HashOf("a", 0, "a", HashLen + 1)],
        [base EXCEPT !.fingerprint = HashOf("g", 0, "g", HashLen)],
        [base EXCEPT !.fuzzyHash = HashOf("z", 1, "b", HashLen)],
        [base EXCEPT !.stableHash = HashOf("9", 0, "c", HashLen - 1)],
        [base EXCEPT !.stableHash = HashOf("-", 2, "c", HashLen)] }

InvalidRequest ==
  /\ Len(sessions) < MaxRequests
  /\ \E body \in InvalidSubmissions : Post(body)

NextInvalid ==
  \/ Request
  \/ InvalidRequest

SpecInvalid ==
  Init /\ [][NextInvalid]_vars

----------------------------------------------------------------------------
(* Submissions with GPU timing data of every kind *)

\* components.gpuTiming.data of a client: no hash; a hash measured with a
\* gpuScore of 0.5, of exactly 0.1, of 0.05; a hash of a module that
\* reports supported: false
GpuTimings ==
  LET hash == HashOf("7", 0, "7", HashLen)
  IN  { [gpuTimingHash |-> NoHash, gpuSupported |-> FALSE, gpuScore |-> 0],
        [gpuTimingHash |-> hash,   gpuSupported |-> TRUE,  gpuScore |-> 50],
        [gpuTimingHash |-> hash,   gpuSupported |-> TRUE,  gpuScore |-> 10],
        [gpuTimingHash |-> hash,   gpuSupported |-> TRUE,  gpuScore |-> 5],
        [gpuTimingHash |-> hash,   gpuSupported |-> FALSE, gpuScore |-> 50] }

GpuSubmissions ==
  { [Body(fp, browser, device, gpu.gpuTimingHash, NULL)
       EXCEPT !.gpuSupported = gpu.gpuSupported, !.gpuScore = gpu.gpuScore] :
      fp \in FingerprintChoices(fingerprints), browser \in Browsers,
      device \in { d \in Devices : d.ipAddress # << "10.0.0.2" >> }, gpu \in GpuTimings }

GpuRequest ==
  /\ Len(sessions) < MaxRequests
  /\ \E body \in GpuSubmissions : Post(body)

NextGpu ==
  GpuRequest

SpecGpu ==
  Init /\ [][NextGpu]_vars

----------------------------------------------------------------------------
(* Requests in flight.  Node runs one handler until its next await, so a   *)
(* handler is a sequence of steps, one for each Prisma call it awaits, and *)
(* the steps of several handlers interleave.  pc names the call a handler  *)
(* is about to make.  updateVisitorTrust and updateStats are called and    *)
(* not awaited: they wait in `pending` and run at any later time.          *)

\* how many requests arrive in a run of the concurrent engine
MaxHandlers == 3

NoValidation ==
  [confidence |-> 0, crowdBlending |-> [score |-> 0, uniqueIPs |-> 0, visitCount |-> 0,
                                        daySpan |-> 0, isTrusted |-> FALSE,
                                        trustLevel |-> "new"]]

\* a handler whose body passed safeParse, before its first query
NewHandler(body) ==
  [pc |-> "exact", input |-> body, matchType |-> "none", base |-> 0,
   visitorId |-> 0, fingerprintId |-> 0, sessionId |-> 0,
   validation |-> NoValidation, status |-> 0]

\* the query that follows a lookup without a hit: layers 2 and 4 are
\* skipped without a stable hash, layer 3 without a usable GPU timing hash
AfterMiss(pc, input) ==
  LET fromGpu    == IF TruthyHash(input.stableHash) THEN "fuzzy-stable" ELSE "fuzzy"
      fromStable == IF TruthyHash(ValidatedGpuTimingHash(input)) THEN "gpu" ELSE fromGpu
  IN  CASE pc = "exact"        -> IF TruthyHash(input.stableHash) THEN "stable" ELSE fromStable
        [] pc = "stable"       -> fromStable
        [] pc = "gpu"          -> fromGpu
        [] pc = "fuzzy-stable" -> "fuzzy"
        [] pc = "fuzzy"        -> "new"

\* the row a lookup returns: [id, visitorId, base confidence], id 0 for none
Found(pc, fps, input) ==
  LET ById(i, base) == IF i = 0 THEN [id |-> 0, visitorId |-> 0, base |-> 0]
                       ELSE [id |-> i, visitorId |-> fps[i].visitorId, base |-> base]
      ByBest(b)     == IF b = NoBest THEN [id |-> 0, visitorId |-> 0, base |-> 0]
                       ELSE [id |-> b.id, visitorId |-> b.visitorId,
                             base |-> FuzzyBase(b.distance)]
  IN  CASE pc = "exact"        -> ById(ExactMatch(fps, input), ConfOne)
        [] pc = "stable"       -> ById(StableMatch(fps, input), StableBase)
        [] pc = "gpu"          -> ById(GpuMatch(fps, input), GpuBase)
        [] pc = "fuzzy-stable" -> ByBest(BestStableMatch(fps, input))
        [] pc = "fuzzy"        -> ByBest(BestMatch(fps, input))

Lookups ==
  { "exact", "stable", "gpu", "fuzzy-stable", "fuzzy" }

\* the promises matchFingerprint and the route leave behind when
\* matchFingerprint returns: updateVisitorTrust(...).catch(console.error)
\* for a match, updateStats(...).catch(console.error), whose `today` is
\* taken when it is called
Promises(h, handler, dateNow) ==
  { [kind |-> "stats", handler |-> h, matchType |-> handler.matchType, at |-> dateNow,
     visitorId |-> 0, crowdBlending |-> NoValidation.crowdBlending] }
  \cup (IF handler.matchType = "new" THEN {}
        ELSE { [kind |-> "trust", handler |-> h, matchType |-> handler.matchType,
                at |-> dateNow, visitorId |-> handler.visitorId,
                crowdBlending |-> handler.validation.crowdBlending] })

\* POST /api/fingerprint arrives: safeParse, then the handler awaits its
\* first query
Arrive(body) ==
  /\ Len(handlers) < MaxHandlers
  /\ SchemaAccepts(body)
  /\ handlers' = Append(handlers, NewHandler(body))
  /\ UNCHANGED << engineVars, tin, tout, pending, sc, fn >>

\* findFirst of layers 1 to 3, findMany and the loop of layers 4 and 5
Looked(h, handler, found) ==
  handlers' =
    [handlers EXCEPT ![h] =
       IF found.id = 0
         THEN [handler EXCEPT !.pc = AfterMiss(handler.pc, handler.input)]
         ELSE [handler EXCEPT !.pc = IF handler.pc = "exact" THEN "session" ELSE "validate",
                              !.matchType = handler.pc,
                              !.base = found.base,
                              !.visitorId = found.visitorId,
                              !.fingerprintId = IF handler.pc = "exact" THEN found.id ELSE 0]]

Lookup(h) ==
  /\ handlers[h].pc \in Lookups
  /\ Looked(h, handlers[h], Found(handlers[h].pc, fingerprints, handlers[h].input))
  /\ UNCHANGED << engineVars, tin, tout, pending, sc, fn >>

\* applyMatchValidation: the scorer reads the sessions; on layer 1 it is
\* the last await of matchFingerprint
Validated(h, validated) ==
  IF validated.matchType = "exact"
    THEN /\ handlers' = [handlers EXCEPT ![h] = [validated EXCEPT !.pc = "history"]]
         /\ pending' = pending \cup Promises(h, validated, now)
    ELSE /\ handlers' = [handlers EXCEPT ![h] = [validated EXCEPT !.pc = "fingerprint"]]
         /\ UNCHANGED pending

ValidateStep(h) ==
  /\ handlers[h].pc = "validate"
  /\ Validated(h, [handlers[h] EXCEPT
                      !.validation = applyMatchValidation(sessions, handlers[h].visitorId,
                                                          handlers[h].matchType,
                                                          handlers[h].base, now)])
  /\ UNCHANGED << engineVars, tin, tout, sc, fn >>

\* prisma.fingerprint.create of layers 2 to 5
FingerprintStep(h) ==
  /\ handlers[h].pc = "fingerprint"
  /\ LET handler == handlers[h]
     IN  /\ fingerprints' = createFingerprint(fingerprints, handler.visitorId, handler.input,
                                              ValidatedGpuTimingHash(handler.input),
                                              handler.validation.confidence, now)
         /\ handlers' = [handlers EXCEPT ![h] =
                           [handler EXCEPT !.pc = "session",
                                           !.fingerprintId = Len(fingerprints) + 1]]
  /\ UNCHANGED << visitors, sessions, stats, now, req, res, pre, tin, tout, pending, sc, fn >>

\* prisma.visitor.create with its nested fingerprint: one statement of
\* layer 6
NewStep(h) ==
  /\ handlers[h].pc = "new"
  /\ LET handler == handlers[h]
     IN  /\ visitors' = createVisitor(visitors, now)
         /\ fingerprints' = createFingerprint(fingerprints, Len(visitors) + 1, handler.input,
                                              ValidatedGpuTimingHash(handler.input),
                                              ConfOne, now)
         /\ handlers' = [handlers EXCEPT ![h] =
                           [handler EXCEPT !.pc = "session",
                                           !.matchType = "new",
                                           !.visitorId = Len(visitors) + 1,
                                           !.fingerprintId = Len(fingerprints) + 1,
                                           !.validation = [NoValidation EXCEPT
                                                             !.confidence = ConfOne]]]
  /\ UNCHANGED << sessions, stats, now, req, res, pre, tin, tout, pending, sc, fn >>

\* createSession: the first write of layer 1, the last await of the other
\* layers
SessionStep(h) ==
  /\ handlers[h].pc = "session"
  /\ LET handler == handlers[h]
         written == [handler EXCEPT !.sessionId = Len(sessions) + 1]
     IN  /\ sessions' = createSession(sessions, handler.visitorId, handler.fingerprintId,
                                      handler.input.ipAddress, now)
         /\ IF handler.matchType = "exact"
              THEN /\ handlers' = [handlers EXCEPT ![h] = [written EXCEPT !.pc = "validate"]]
                   /\ UNCHANGED pending
              ELSE /\ handlers' = [handlers EXCEPT ![h] = [written EXCEPT !.pc = "history"]]
                   /\ pending' = pending \cup Promises(h, written, now)
  /\ UNCHANGED << visitors, fingerprints, stats, now, req, res, pre, tin, tout, sc, fn >>

\* prisma.visitor.findUnique of the route, then res.json
HistoryStep(h) ==
  /\ handlers[h].pc = "history"
  /\ handlers' = [handlers EXCEPT ![h] = [handlers[h] EXCEPT !.pc = "done", !.status = 200]]
  /\ UNCHANGED << engineVars, tin, tout, pending, sc, fn >>

\* a promise nobody awaits runs: the upsert of updateStats, or the update
\* of updateVisitorTrust
Settle(p) ==
  /\ p \in pending
  /\ pending' = pending \ { p }
  /\ IF p.kind = "stats"
       THEN /\ stats' = updateStats(stats, p.matchType, p.at)
            /\ UNCHANGED visitors
       ELSE /\ visitors' = updateVisitorTrust(visitors, p.visitorId, p.crowdBlending, now)
            /\ UNCHANGED stats
  /\ UNCHANGED << fingerprints, sessions, now, req, res, pre, tin, tout, handlers, sc, fn >>

\* the Prisma call a handler awaits rejects (the store is down, the query
\* times out, the request is cancelled): the call writes nothing, the
\* error propagates to the catch of the route, which answers 500
Fail(h) ==
  /\ handlers[h].pc \in Lookups \cup { "validate", "fingerprint", "new", "session", "history" }
  /\ handlers' = [handlers EXCEPT ![h] = [handlers[h] EXCEPT !.pc = "failed", !.status = 500]]
  /\ UNCHANGED << engineVars, tin, tout, pending, sc, fn >>

\* the bodies of concurrent requests: two fingerprint hashes, two browsers
\* far apart, with and without a stable hash
ConcurrentSubmissions ==
  { Body(FingerprintPool[i], browser, device, NoHash, NULL) :
      i \in 1..2,
      browser \in { b \in Browsers : ~b.isFarbled /\ b.fuzzyHash # HashOf("e", 8, "b", HashLen) }
                    \cup { b \in Browsers : b.isFarbled },
      device \in { d \in Devices : d.ipAddress # << "10.0.0.2" >> } }

\* the store the concurrent requests find: one visitor, made by one earlier
\* request whose handler and promises have run to their end
SeedBody ==
  Body(FingerprintPool[1],
       [fuzzyHash |-> HashOf("e", 0, "b", HashLen), isFarbled |-> FALSE, gpuScore |-> 50],
       [stableHash |-> HashOf("9", 0, "c", HashLen), ipAddress |-> << "10.0.0.1" >>],
       NoHash, NULL)

Seeded(out) ==
  /\ visitors = out.visitors
  /\ fingerprints = out.fingerprints
  /\ sessions = out.sessions
  /\ stats = updateStats(<< >>, out.result.matchType, 0)
  /\ now = 0
  /\ req = NoRequest
  /\ res = NoResponse
  /\ pre = [visitors |-> 0, fingerprints |-> 0, sessions |-> 0, at |-> 0]
  /\ tin = TokenIdle
  /\ tout = TokenIdle
  /\ handlers = << [NewHandler(SeedBody) EXCEPT
                      !.pc = "done", !.status = 200,
                      !.matchType = out.result.matchType,
                      !.visitorId = out.result.visitorId,
                      !.fingerprintId = out.result.fingerprintId,
                      !.sessionId = Len(out.sessions),
                      !.validation = [NoValidation EXCEPT
                                        !.confidence = out.result.confidence]] >>
  /\ pending = NoPending
  /\ sc = ScorerIdle
  /\ fn = [op |-> "none"]

InitConcurrent ==
  Seeded(matchFingerprint(<< >>, << >>, << >>, SeedBody, 0))

NextConcurrent ==
  \/ \E body \in ConcurrentSubmissions : Arrive(body)
  \/ \E h \in 1..Len(handlers) : Lookup(h)
  \/ \E h \in 1..Len(handlers) : ValidateStep(h)
  \/ \E h \in 1..Len(handlers) : FingerprintStep(h)
  \/ \E h \in 1..Len(handlers) : NewStep(h)
  \/ \E h \in 1..Len(handlers) : SessionStep(h)
  \/ \E h \in 1..Len(handlers) : HistoryStep(h)
  \/ \E p \in pending : Settle(p)

SpecConcurrent ==
  InitConcurrent /\ [][NextConcurrent]_vars

NextFailing ==
  \/ NextConcurrent
  \/ \E h \in 1..Len(handlers) : Fail(h)

SpecFailing ==
  InitConcurrent /\ [][NextFailing]_vars

----------------------------------------------------------------------------
(* The trust scorer on histories of every shape.  The store holds one      *)
(* visitor with one fingerprint row and a history of sessions; the scorer  *)
(* is called on it, a session is added and the scorer is called again, or  *)
(* a request is matched against it.                                        *)

\* how many sessions a history starts with
MaxVisits == 10

\* the time at which the scorer runs: the eighth day, so that a session
\* can be older than the window
EvalTime ==
  8 * DayMs

ClientAddresses ==
  << << "10.0.0.1" >>, << "10.0.0.2" >>, << "10.0.0.3" >>, << "10.0.0.4" >> >>

\* hours between the first session and the time of scoring: the same
\* hour, within a day, 2 days and an hour more, 4 days and an hour more,
\* the whole window, and an hour more than the window
Spans ==
  { 0, 1, 2 * DayMs, 2 * DayMs + 1, 4 * DayMs, 4 * DayMs + 1, 7 * DayMs, 7 * DayMs + 1 }

\* n sessions of visitor 1, the first one `span` hours ago and the others
\* now, from k client addresses (from none when k = 0)
History(n, k, span) ==
  [i \in 1..n |->
     [id            |-> i,
      visitorId     |-> 1,
      fingerprintId |-> 1,
      ipAddress     |-> IF k = 0 THEN NULL
                        ELSE IF i <= k THEN ClientAddresses[i] ELSE ClientAddresses[1],
      firstSeen     |-> IF i = 1 THEN EvalTime - span ELSE EvalTime]]

Stored(vis, n, k, span) ==
  /\ visitors = vis
  /\ fingerprints = createFingerprint(<< >>, vis[1].id, SeedBody, NoHash, ConfOne, 0)
  /\ sessions = History(n, k, span)
  /\ stats = << >>
  /\ now = EvalTime
  /\ req = NoRequest
  /\ res = NoResponse
  /\ pre = [visitors |-> 0, fingerprints |-> 0, sessions |-> 0, at |-> 0]
  /\ tin = TokenIdle
  /\ tout = TokenIdle
  /\ handlers = NoHandlers
  /\ pending = NoPending
  /\ sc = ScorerIdle
  /\ fn = [op |-> "none"]

InitScorer ==
  \E n \in 0..MaxVisits, k \in 0..3, span \in Spans :
    /\ k <= n
    /\ Stored(createVisitor(<< >>, 0), n, k, span)

\* calculateCrowdBlendingScore(visitorId) on the history as drawn
ScoreVisitor ==
  /\ sc.op = "none" /\ res = NoResponse
  /\ sc' = [op |-> "score",
            result |-> calculateCrowdBlendingScore(sessions, 1, now),
            before |-> calculateCrowdBlendingScore(<< >>, 1, now)]
  /\ UNCHANGED << engineVars, tin, tout, handlers, pending, fn >>

\* one more session of the visitor, from any client address or none, first
\* seen at any time of the window
RecordSession ==
  /\ sc.op = "score"
  /\ \E ip \in { NULL } \cup { ClientAddresses[i] : i \in 1..Len(ClientAddresses) },
        age \in Spans \ { 7 * DayMs + 1 } :
       sessions' = Append(sessions, [id |-> Len(sessions) + 1, visitorId |-> 1,
                                     fingerprintId |-> 1, ipAddress |-> ip,
                                     firstSeen |-> now - age])
  /\ sc' = [sc EXCEPT !.op = "added"]
  /\ UNCHANGED << visitors, fingerprints, stats, now, req, res, pre, tin, tout,
                  handlers, pending, fn >>

\* calculateCrowdBlendingScore(visitorId) after the session was added
ScoreAgain ==
  /\ sc.op = "added"
  /\ sc' = [op |-> "rescore",
            result |-> calculateCrowdBlendingScore(sessions, 1, now),
            before |-> sc.result]
  /\ UNCHANGED << engineVars, tin, tout, handlers, pending, fn >>

\* a submission with a new fingerprint hash, matched against the stored
\* row by the layers 2, 4 and 5 or not at all
ScoredSubmissions ==
  { Body(FingerprintPool[2], browser, device, NoHash, NULL) :
      browser \in Browsers, device \in Devices }

ScoredRequest ==
  /\ sc.op = "none" /\ res = NoResponse
  /\ \E body \in ScoredSubmissions : Post(body)

NextScorer ==
  \/ ScoreVisitor
  \/ RecordSession
  \/ ScoreAgain
  \/ ScoredRequest

SpecScorer ==
  InitScorer /\ [][NextScorer]_vars

----------------------------------------------------------------------------
(* The helper functions on inputs of every shape *)

\* how long the strings given to hammingDistance are
MaxLen == 3

\* s1 and s2 are any strings of up to MaxLen characters out of three
InitHamming ==
  /\ visitors = << >>
  /\ fingerprints = << >>
  /\ sessions = << >>
  /\ stats = << >>
  /\ now = 0
  /\ req = NoRequest
  /\ res = NoResponse
  /\ pre = [visitors |-> 0, fingerprints |-> 0, sessions |-> 0, at |-> 0]
  /\ tin = TokenIdle
  /\ tout = TokenIdle
  /\ handlers = NoHandlers
  /\ pending = NoPending
  /\ sc = ScorerIdle
  /\ LET Letters      == { "a", "b", "0" }
         StringsOf(n) == { [i \in 1..n |-> [c |-> f[i], n |-> 1]] : f \in [1..n -> Letters] }
         Strings      == UNION { StringsOf(n) : n \in 0..MaxLen }
     IN  \E s1 \in Strings, s2 \in Strings : fn = [op |-> "given", s1 |-> s1, s2 |-> s2]

\* hammingDistance(s1, s2) and hammingDistance(s2, s1)
Measure ==
  /\ fn.op = "given"
  /\ fn' = [op |-> "hammingDistance", s1 |-> fn.s1, s2 |-> fn.s2,
            distance |-> hammingDistance(fn.s1, fn.s2),
            reverse  |-> hammingDistance(fn.s2, fn.s1)]
  /\ UNCHANGED << engineVars, tin, tout, handlers, pending, sc >>

SpecHamming ==
  InitHamming /\ [][Measure]_vars

\* how many visits a trust result given to shouldTrustMatch counts
MaxVisitCount == 7

\* crowdBlending is any CrowdBlendingResult with a score from 0 to 1 in
\* hundredths and any visit count (shouldTrustMatch reads no other field),
\* matchType any of the six match types
InitTrust ==
  /\ visitors = << >>
  /\ fingerprints = << >>
  /\ sessions = << >>
  /\ stats = << >>
  /\ now = 0
  /\ req = NoRequest
  /\ res = NoResponse
  /\ pre = [visitors |-> 0, fingerprints |-> 0, sessions |-> 0, at |-> 0]
  /\ tin = TokenIdle
  /\ tout = TokenIdle
  /\ handlers = NoHandlers
  /\ pending = NoPending
  /\ sc = ScorerIdle
  /\ LET TrustResults == [score      : 0..100,
                           uniqueIPs  : { 0 },
                           visitCount : 0..MaxVisitCount,
                           daySpan    : { 0 },
                           isTrusted  : BOOLEAN,
                           trustLevel : { "new" }]
     IN  \E trust \in TrustResults,
            matchType \in { "exact", "stable", "gpu", "fuzzy-stable", "fuzzy", "new" } :
           fn = [op |-> "given", crowdBlending |-> trust, matchType |-> matchType]

\* shouldTrustMatch(crowdBlending, matchType)
Judge ==
  /\ fn.op = "given"
  /\ fn' = [op |-> "shouldTrustMatch", crowdBlending |-> fn.crowdBlending,
            matchType |-> fn.matchType,
            trusted |-> shouldTrustMatch(fn.crowdBlending, fn.matchType)]
  /\ UNCHANGED << engineVars, tin, tout, handlers, pending, sc >>

SpecTrust ==
  InitTrust /\ [][Judge]_vars

\* shouldTrustMatch on a result of the scorer, as applyMatchValidation
\* calls it, for any match type
JudgeScored ==
  /\ sc.op \in { "score", "rescore" }
  /\ fn.op = "none"
  /\ \E matchType \in { "exact", "stable", "gpu", "fuzzy-stable", "fuzzy", "new" } :
       fn' = [op |-> "shouldTrustMatch", crowdBlending |-> sc.result,
              matchType |-> matchType,
              trusted |-> shouldTrustMatch(sc.result, matchType)]
  /\ UNCHANGED << engineVars, tin, tout, handlers, pending, sc >>

NextTrusted ==
  \/ ScoreVisitor
  \/ RecordSession
  \/ ScoreAgain
  \/ ScoredRequest
  \/ JudgeScored

SpecTrusted ==
  InitScorer /\ [][NextTrusted]_vars

----------------------------------------------------------------------------
(* The scans over a store of any content: rows of several visitors at the  *)
(* same distance of a submission, rows without a stable or GPU hash, rows  *)
(* whose hashes are empty or of another length (written by another hand    *)
(* than the handler's).                                                    *)

\* how many fingerprint rows the store holds
MaxRows == 3

\* row i belongs to visitor i and has a fingerprint hash of its own; its
\* other hashes (fuzzy, stable, GPU timing) have one of six shapes
InitScan ==
  LET RowShapes ==
        { [fuzzyHash |-> HashOf("e", 0, "b", HashLen), stableHash |-> NoHash,
           gpuTimingHash |-> NoHash],
          [fuzzyHash |-> HashOf("e", 8, "b", HashLen), stableHash |-> HashOf("9", 0, "c", HashLen),
           gpuTimingHash |-> HashOf("7", 0, "7", HashLen)],
          [fuzzyHash |-> HashOf("f", 8, "b", HashLen), stableHash |-> HashOf("9", 4, "c", HashLen),
           gpuTimingHash |-> NoHash],
          [fuzzyHash |-> HashOf("e", 0, "b", HashLen - 1),
           stableHash |-> HashOf("9", 0, "c", HashLen - 1), gpuTimingHash |-> << >>],
          [fuzzyHash |-> HashOf("e", 17, "b", HashLen), stableHash |-> << >>,
           gpuTimingHash |-> HashOf("7", 0, "7", HashLen)],
          [fuzzyHash |-> HashOf("e", 17, "b", HashLen), stableHash |-> HashOf("8", 4, "c", HashLen),
           gpuTimingHash |-> NoHash] }
  IN
  \E k \in 1..MaxRows : \E shapes \in [1..k -> RowShapes] :
    /\ visitors = [i \in 1..k |-> [createVisitor(<< >>, 0)[1] EXCEPT !.id = i]]
    /\ fingerprints = [i \in 1..k |->
                         [id              |-> i,
                          visitorId       |-> i,
                          fingerprintHash |-> HashOf("0", i, "1", HashLen),
                          fuzzyHash       |-> shapes[i].fuzzyHash,
                          stableHash      |-> shapes[i].stableHash,
                          gpuTimingHash   |-> shapes[i].gpuTimingHash,
                          confidence      |-> ConfOne,
                          isFarbled       |-> FALSE,
                          createdAt       |-> 0]]
    /\ sessions = [i \in 1..k |-> [createSession(<< >>, i, i, NULL, 0)[1] EXCEPT !.id = i]]
    /\ stats = << >>
    /\ now = 0
    /\ req = NoRequest
    /\ res = NoResponse
    /\ pre = [visitors |-> 0, fingerprints |-> 0, sessions |-> 0, at |-> 0]
    /\ tin = TokenIdle
    /\ tout = TokenIdle
    /\ handlers = NoHandlers
    /\ pending = NoPending
    /\ sc = ScorerIdle
    /\ fn = [op |-> "none"]

\* submissions with a fingerprint hash the store does not hold; a device
\* may send the empty string as its stable hash
ScanRequest ==
  /\ res = NoResponse
  /\ \E browser \in Browsers,
        device \in Devices \cup { [stableHash |-> << >>, ipAddress |-> NULL] },
        gpu \in GpuHashes :
       Post(Body(FingerprintPool[2], browser, device, gpu, NULL))

SpecScan ==
  InitScan /\ [][ScanRequest]_vars
----------------------------------------------------------------------------
(* Properties.  They are stated over the last request (req), its response  *)
(* (res) and the tables as that request found them: rows are only ever     *)
(* appended, so the fingerprint table the request saw is the first         *)
(* pre.fingerprints rows.  The layer conditions below are stated from the  *)
(* stored rows, not through the lookups of matchFingerprint.               *)

Accepted ==
  res.status = 200

\* number of positions at which two strings of HashLen characters differ
Mismatches(s1, s2) ==
  Cardinality({ i \in 1..HashLen : CharAt(s1, i) # CharAt(s2, i) })

SeenRows ==
  1..pre.fingerprints

ExactHit ==
  \E i \in SeenRows : fingerprints[i].fingerprintHash = req.fingerprint

StableHit ==
  /\ req.stableHash # NoHash
  /\ \E i \in SeenRows : fingerprints[i].stableHash = req.stableHash

GpuUsable ==
  req.gpuTimingHash # NoHash /\ req.gpuSupported /\ req.gpuScore > 10

GpuHit ==
  /\ GpuUsable
  /\ \E i \in SeenRows : fingerprints[i].gpuTimingHash = req.gpuTimingHash

\* distances of the request's stable hash to the stored stable hashes
StableDistances ==
  IF req.stableHash = NoHash THEN {}
  ELSE { Mismatches(fingerprints[i].stableHash, req.stableHash) :
           i \in { j \in SeenRows : fingerprints[j].stableHash # NoHash } }

FuzzyStableHit ==
  \E d \in StableDistances : d <= 4

\* distances of the request's fuzzy hash to the stored fuzzy hashes
FuzzyDistances ==
  { Mismatches(fingerprints[i].fuzzyHash, req.fuzzyHash) : i \in SeenRows }

FuzzyHit ==
  \E d \in FuzzyDistances : d <= 8

EarlierLayerHit ==
  ExactHit \/ StableHit \/ GpuHit \/ FuzzyStableHit

\* crowd score of the response's visitor over the sessions the request saw
SeenScore ==
  calculateCrowdBlendingScore(SubSeq(sessions, 1, pre.sessions), res.visitorId, pre.at).score

LastRow ==
  fingerprints[Len(fingerprints)]

LastSession ==
  sessions[Len(sessions)]

\* C1: the layers are tried in the order exact, stable, gpu, fuzzy-stable,
\* fuzzy, new, and the match type of a response is that of the first layer
\* that has a hit among the rows the request saw: a layer wins exactly when
\* it has a hit and no earlier layer has one.
C1_LayerOrder ==
  Accepted =>
    /\ (res.matchType = "exact") <=> ExactHit
    /\ (res.matchType = "stable") <=> (~ExactHit /\ StableHit)
    /\ (res.matchType = "gpu") <=> (~ExactHit /\ ~StableHit /\ GpuHit)
    /\ (res.matchType = "fuzzy-stable") <=>
         (~ExactHit /\ ~StableHit /\ ~GpuHit /\ FuzzyStableHit)
    /\ (res.matchType = "fuzzy") <=> (~EarlierLayerHit /\ FuzzyHit)
    /\ (res.matchType = "new") <=> (~EarlierLayerHit /\ ~FuzzyHit)

\* a stable match of a request on which the GPU layer and both fuzzy layers
\* had a hit as well
C1_Witness ==
  /\ Accepted
  /\ res.matchType = "stable"
  /\ GpuHit /\ FuzzyStableHit /\ FuzzyHit

\* C2: when a submission is followed by the same submission, the second
\* response has the visitor id of the first, match type exact and
\* isNewVisitor false.
C2_ExactIdempotence ==
  [][(Accepted /\ req' = req /\ sessions' # sessions) =>
       /\ res'.status = 200
       /\ res'.visitorId = res.visitorId
       /\ res'.matchType = "exact"
       /\ ~res'.isNewVisitor]_vars

\* the second of two equal submissions has been answered, the first having
\* been made on a store that held rows already: the session before the last
\* one belongs to the last fingerprint row, which has the request's hashes
C2_Witness ==
  /\ Accepted
  /\ Len(sessions) >= 3
  /\ res.matchType = "exact"
  /\ ~res.isNewVisitor
  /\ sessions[Len(sessions) - 1].fingerprintId = Len(fingerprints)
  /\ sessions[Len(sessions) - 1].ipAddress = req.ipAddress
  /\ LastRow.fingerprintHash = req.fingerprint
  /\ LastRow.fuzzyHash = req.fuzzyHash
  /\ LastRow.stableHash = req.stableHash
  /\ LastRow.visitorId = res.visitorId

\* C3: when a stored row of visitor V has stable hash S, a submission whose
\* fingerprint hash is not stored and whose stable hash is S is answered
\* with match type stable and visitor V, its confidence being 0.95 plus the
\* boost of 0.1 times V's crowd score, capped at 1.
C3_StableSymmetry ==
  (Accepted /\ ~ExactHit /\ req.stableHash # NoHash) =>
    \A i \in SeenRows :
      fingerprints[i].stableHash = req.stableHash =>
        /\ res.matchType = "stable"
        /\ res.visitorId = fingerprints[i].visitorId
        /\ LET sum == 9500000 + 10000 * SeenScore
           IN  res.confidence = IF sum > ConfOne THEN ConfOne ELSE sum

\* a stable match by a browser other than the one that stored the stable
\* hash, with a boost
C3_Witness ==
  /\ Accepted
  /\ res.matchType = "stable"
  /\ res.confidence > 9500000
  /\ \E i \in SeenRows :
       /\ fingerprints[i].stableHash = req.stableHash
       /\ fingerprints[i].fuzzyHash # req.fuzzyHash
       /\ fingerprints[i].fingerprintHash # req.fingerprint

\* C4: a submission whose fuzzy hash is at k positions of a stored one ends
\* in fuzzy if k <= 8 and no earlier layer has a hit, a fuzzy ending has
\* such a k, and when the nearest stored fuzzy hash is at 9 positions and
\* no earlier layer has a hit the submission ends in new with a visitor
\* that did not exist.
C4_FuzzyThreshold ==
  Accepted =>
    /\ \A k \in FuzzyDistances :
         (k <= 8 /\ ~EarlierLayerHit) => res.matchType = "fuzzy"
    /\ res.matchType = "fuzzy" =>
         (~EarlierLayerHit /\ \E k \in FuzzyDistances : k <= 8)
    /\ (~EarlierLayerHit /\ 9 \in FuzzyDistances /\ \A k \in FuzzyDistances : k >= 9) =>
         /\ res.matchType = "new"
         /\ res.isNewVisitor
         /\ Len(visitors) = pre.visitors + 1
         /\ res.visitorId = Len(visitors)

\* the second row was stored for a new visitor at 9 positions of the first
\* row, and the last request matched at exactly 8 positions
C4_Witness ==
  /\ Accepted
  /\ res.matchType = "fuzzy"
  /\ 8 \in FuzzyDistances /\ \A k \in FuzzyDistances : k >= 8
  /\ pre.fingerprints = 2
  /\ fingerprints[1].visitorId # fingerprints[2].visitorId
  /\ Mismatches(fingerprints[1].fuzzyHash, fingerprints[2].fuzzyHash) = 9

\* C5: an accepted submission adds exactly one session row, which holds the
\* visitor id and the fingerprint id of the response; every session row
\* references a visitor row and a fingerprint row, and that fingerprint row
\* belongs to the session's visitor.
C5_OneSessionPerSubmission ==
  /\ Accepted =>
       /\ Len(sessions) = pre.sessions + 1
       /\ LastSession.visitorId = res.visitorId
       /\ LastSession.fingerprintId = res.requestId
  /\ \A i \in 1..Len(sessions) :
       /\ sessions[i].visitorId \in 1..Len(visitors)
       /\ visitors[sessions[i].visitorId].id = sessions[i].visitorId
       /\ sessions[i].fingerprintId \in 1..Len(fingerprints)
       /\ fingerprints[sessions[i].fingerprintId].id = sessions[i].fingerprintId
       /\ fingerprints[sessions[i].fingerprintId].visitorId = sessions[i].visitorId

\* the third session reuses the first fingerprint row of the first of two
\* visitors
C5_Witness ==
  /\ Accepted
  /\ res.matchType = "exact"
  /\ Len(sessions) = 3 /\ Len(fingerprints) = 2 /\ Len(visitors) = 2
  /\ res.requestId = 1
  /\ LastSession.fingerprintId = 1 /\ LastSession.visitorId = 1

\* C6: a stable, gpu, fuzzy-stable or fuzzy match adds one fingerprint row,
\* owned by the visitor of a row that matched, with the confidence of the
\* response and the isFarbled flag of the submission, and no visitor row;
\* an exact match adds no fingerprint row and no visitor row; new adds one
\* visitor row and one fingerprint row owned by that visitor.
C6_RowDeltas ==
  Accepted =>
    /\ res.matchType = "exact" =>
         /\ Len(fingerprints) = pre.fingerprints
         /\ Len(visitors) = pre.visitors
    /\ res.matchType \in { "stable", "gpu", "fuzzy-stable", "fuzzy" } =>
         /\ Len(fingerprints) = pre.fingerprints + 1
         /\ Len(visitors) = pre.visitors
         /\ LastRow.visitorId = res.visitorId
         /\ LastRow.confidence = res.confidence
         /\ LastRow.isFarbled = req.isFarbled
         /\ \E i \in SeenRows :
              /\ fingerprints[i].visitorId = LastRow.visitorId
              /\ CASE res.matchType = "stable" ->
                        fingerprints[i].stableHash = req.stableHash
                   [] res.matchType = "gpu" ->
                        fingerprints[i].gpuTimingHash = req.gpuTimingHash
                   [] res.matchType = "fuzzy-stable" ->
                        /\ fingerprints[i].stableHash # NoHash
                        /\ Mismatches(fingerprints[i].stableHash, req.stableHash) <= 4
                   [] res.matchType = "fuzzy" ->
                        Mismatches(fingerprints[i].fuzzyHash, req.fuzzyHash) <= 8
    /\ res.matchType = "new" =>
         /\ Len(visitors) = pre.visitors + 1
         /\ Len(fingerprints) = pre.fingerprints + 1
         /\ LastRow.visitorId = Len(visitors)
         /\ LastRow.confidence = res.confidence
         /\ LastRow.isFarbled = req.isFarbled

\* a farbled submission matched on the stable layer, stored with a
\* confidence above the layer's base
C6_Witness ==
  /\ Accepted
  /\ res.matchType = "stable"
  /\ req.isFarbled
  /\ Len(fingerprints) = pre.fingerprints + 1
  /\ LastRow.isFarbled
  /\ LastRow.confidence > 9500000

\* base confidence of the layer the response names: 1, 0.95, 0.92, or
\* 1 - d/64 with d the distance to the nearest stored hash
LayerBase ==
  CASE res.matchType = "exact"        -> ConfOne
    [] res.matchType = "stable"       -> 9500000
    [] res.matchType = "gpu"          -> 9200000
    [] res.matchType = "fuzzy-stable" -> ConfOne - SetMin(StableDistances) * (ConfOne \div 64)
    [] res.matchType = "fuzzy"        -> ConfOne - SetMin(FuzzyDistances) * (ConfOne \div 64)
    [] OTHER                          -> ConfOne

\* C7: the confidence of a response lies in [0, 1], and for a match type
\* other than new it is at least 0.6 times the base confidence of the
\* layer.
C7_ConfidenceRange ==
  Accepted =>
    /\ 0 <= res.confidence /\ res.confidence <= ConfOne
    /\ res.matchType # "new" => 10 * res.confidence >= 6 * LayerBase

\* a fuzzy match at 8 positions, base 0.875, of a visitor seen twice half a
\* day apart: score 0.2, confidence 0.875 + 0.2 * 0.2
C7_Witness ==
  /\ Accepted
  /\ res.matchType = "fuzzy"
  /\ LayerBase = 8750000
  /\ SeenScore = 20
  /\ res.confidence = 9150000

\* C8: when a submission carries a valid token, the request creates no
\* visitor row and the visitor id of the response is the token's.
C8_SignedIdentityShortCircuit ==
  (Accepted /\ validatePersistentIdentity(req.persistentId, DefaultMaxAge, now).valid) =>
    /\ Len(visitors) = pre.visitors
    /\ VisitorIds[res.visitorId]
         = validatePersistentIdentity(req.persistentId, DefaultMaxAge, now).visitorId

\* C9: validate returns valid = true only for a token whose signature
\* verifies and whose age is at most maxAge.
C9_ValidOnlyIfNotExpired ==
  (tout.op = "validate" /\ tout.result.valid) =>
    /\ parseSignedVisitorId(tin.token).valid
    /\ now - parseSignedVisitorId(tin.token).createdAt <= tout.maxAge

\* `upper` is the upper-case form of the hex letter `lower`
IsUpperCaseOf(upper, lower) ==
  \E i \in 1..6 : upper = UpperHexLetters[i] /\ lower = LowerHex[10 + i]

\* parse(sign(v)).visitor_id = v and verify(v, parse(sign(v)).signature)
RoundTrip ==
  /\ tin.op = "token" =>
       /\ ~parseSignedVisitorId(tin.token).isNull
       /\ parseSignedVisitorId(tin.token).visitorId = VisitorIds[tin.visitor]
  /\ (tout.op = "verify" /\ tout.changed = 0) => tout.ok

\* C10: a token parses to the visitor id it was signed for and its
\* signature verifies; a signature with one character changed does not
\* verify, unless the change turned a letter a-f into its upper-case form,
\* in which case it decodes to the same bytes and verifies.
C10_TokenRoundTrip ==
  /\ RoundTrip
  /\ (tout.op = "verify" /\ tout.changed # 0) =>
       (tout.ok <=>
          IsUpperCaseOf(tout.signature[tout.changed],
                        signVisitorId(VisitorIds[tin.visitor])[tout.changed]))

\* a signature whose last character was replaced by one that is no hex
\* digit has been refused
C10_Witness ==
  /\ tout.op = "verify"
  /\ tout.changed = SIGNATURE_LENGTH
  /\ tout.signature[SIGNATURE_LENGTH] = "g"
  /\ ~tout.ok

\* C10 as stated: verify is false for the signature with any single
\* character changed.
C10_AnyChangeRefused ==
  /\ RoundTrip
  /\ (tout.op = "verify" /\ tout.changed # 0) => ~tout.ok


----------------------------------------------------------------------------
(* Properties of presented tokens and of rejected submissions *)

\* a string of decimal digits
IsNumeric(s) ==
  s # << >> /\ \A i \in 1..Len(s) : IsDecDigit(s[i])

\* number of dots of a token
DotCount(token) ==
  Cardinality({ i \in 1..Len(token) : token[i] = "." })

\* absent, not three dot-separated parts, a timestamp that is no number, or
\* a signature that is not the one of the token's visitor id
AbsentOrInvalid(token) ==
  \/ token = NULL
  \/ token = << >>
  \/ DotCount(token) # 2
  \/ ~IsNumeric(Split(token, ".")[3])
  \/ Split(token, ".")[2] # signVisitorId(Split(token, ".")[1])

\* the response to the last request, had it carried no token
TokenlessOutcome ==
  matchFingerprint(SubSeq(visitors, 1, pre.visitors), SubSeq(fingerprints, 1, pre.fingerprints),
                   SubSeq(sessions, 1, pre.sessions), [req EXCEPT !.persistentId = NULL], pre.at)

\* C11: for a token that is absent, malformed or wrongly signed, validate
\* returns valid = false and no visitor id, and a request that carries such
\* a token ends as the same request without a token does: same visitor,
\* match type, confidence and rows.
C11_InvalidTokenIsAbsent ==
  /\ (tout.op = "validate" /\ AbsentOrInvalid(tin.token)) =>
       /\ ~tout.result.valid
       /\ tout.result.visitorId = NULL
  /\ (Accepted /\ AbsentOrInvalid(req.persistentId)) =>
       /\ res.visitorId = TokenlessOutcome.result.visitorId
       /\ res.matchType = TokenlessOutcome.result.matchType
       /\ res.confidence = TokenlessOutcome.result.confidence
       /\ res.isNewVisitor = TokenlessOutcome.result.isNewVisitor
       /\ fingerprints = TokenlessOutcome.fingerprints
       /\ sessions = TokenlessOutcome.sessions

\* 64 hex digits
IsHex64(hash) ==
  /\ StrLen(hash) = 64
  /\ \A i \in 1..Len(hash) : HexValue(hash[i].c) >= 0

InvalidSubmission(body) ==
  \/ ~IsHex64(body.fingerprint)
  \/ ~IsHex64(body.fuzzyHash)
  \/ (body.stableHash # NoHash /\ ~IsHex64(body.stableHash))

\* C12: a submission whose fingerprint, fuzzyHash or supplied stableHash is
\* not exactly 64 hex digits is rejected, and the request leaves the
\* visitor, fingerprint, session and stats tables as they were.
C12_InvalidSubmissionRejected ==
  [][InvalidSubmission(req') =>
       /\ res'.status = 400
       /\ UNCHANGED << visitors, fingerprints, sessions, stats >>]_vars

----------------------------------------------------------------------------
(* GPU gating *)

\* the most recent row, of those the request saw, that holds the request's
\* GPU timing hash; 0 when there is none
StoredGpuRow ==
  LET rows == { i \in SeenRows : fingerprints[i].gpuTimingHash = req.gpuTimingHash }
  IN  IF req.gpuTimingHash = NoHash \/ rows = {} THEN 0 ELSE SetMax(rows)

\* no layer other than the GPU layer has a hit
OtherHashesNovel ==
  ~ExactHit /\ ~StableHit /\ ~FuzzyStableHit /\ ~FuzzyHit

WroteRow ==
  Len(fingerprints) = pre.fingerprints + 1

----------------------------------------------------------------------------
(* Properties of requests in flight *)

Handlers ==
  1..Len(handlers)

\* matchFingerprint has returned and the route has called updateStats
Returned(h) ==
  handlers[h].pc \in { "history", "done" }

ReturnedWith(matchType) ==
  Cardinality({ h \in Handlers : Returned(h) /\ handlers[h].matchType = matchType })

WrittenRow(h) ==
  IF handlers[h].matchType = "exact" THEN 0 ELSE handlers[h].fingerprintId

\* C15: a request that failed has written no session row, and no
\* fingerprint row either: its rows are all present or all absent, and the
\* request having answered with an error, they are absent.
C15_AllOrNothing ==
  \A h \in Handlers :
    handlers[h].pc = "failed" =>
      /\ handlers[h].sessionId = 0
      /\ WrittenRow(h) = 0

\* the session row of a handler is in the table and holds the handler's
\* visitor, fingerprint row and client address
OwnSession(h) ==
  /\ handlers[h].sessionId \in 1..Len(sessions)
  /\ sessions[handlers[h].sessionId].visitorId = handlers[h].visitorId
  /\ sessions[handlers[h].sessionId].fingerprintId = handlers[h].fingerprintId
  /\ sessions[handlers[h].sessionId].ipAddress = handlers[h].input.ipAddress

\* the fingerprint row a handler returns is in the table and holds the
\* handler's visitor and fingerprint hash
ReturnedRow(h) ==
  /\ handlers[h].fingerprintId \in 1..Len(fingerprints)
  /\ fingerprints[handlers[h].fingerprintId].visitorId = handlers[h].visitorId
  /\ fingerprints[handlers[h].fingerprintId].fingerprintHash = handlers[h].input.fingerprint

\* the row is the handler's own: it holds the other hashes of its
\* submission as well
OwnRow(h) ==
  /\ ReturnedRow(h)
  /\ fingerprints[handlers[h].fingerprintId].fuzzyHash = handlers[h].input.fuzzyHash
  /\ fingerprints[handlers[h].fingerprintId].stableHash = handlers[h].input.stableHash
  /\ fingerprints[handlers[h].fingerprintId].isFarbled = handlers[h].input.isFarbled

\* two requests that matched the same visitor and have answered
MatchedSameVisitor(h1, h2) ==
  /\ h1 # h2
  /\ handlers[h1].pc = "done" /\ handlers[h2].pc = "done"
  /\ handlers[h1].matchType \notin { "none", "new" }
  /\ handlers[h2].matchType \notin { "none", "new" }
  /\ handlers[h1].visitorId = handlers[h2].visitorId

\* no handler fails, and a handler that has not answered can take a step
Completes(h) ==
  /\ handlers[h].status # 500
  /\ handlers[h].pc # "done" =>
       ENABLED (Lookup(h) \/ ValidateStep(h) \/ FingerprintStep(h) \/ NewStep(h)
                  \/ SessionStep(h) \/ HistoryStep(h))

\* C16: requests in flight always complete, and of two requests that
\* matched one visitor each has its own session row under that visitor; a
\* request that matched on layers 2 to 5 has written its own fingerprint
\* row, which no other request has written, and a request that matched on
\* layer 1 has written none and returns a stored row of that visitor with
\* its fingerprint hash.
C16_OwnRowsPerRequest ==
  /\ \A h \in Handlers : Completes(h)
  /\ Len(fingerprints) = Cardinality({ h \in Handlers : WrittenRow(h) # 0 })
  /\ \A h1, h2 \in Handlers :
       MatchedSameVisitor(h1, h2) =>
         /\ OwnSession(h1) /\ OwnSession(h2)
         /\ handlers[h1].sessionId # handlers[h2].sessionId
         /\ ReturnedRow(h1) /\ ReturnedRow(h2)
         /\ WrittenRow(h1) # 0 =>
              /\ OwnRow(h1)
              /\ WrittenRow(h1) # WrittenRow(h2)

\* two requests matched visitor 1 on the stable layer, interleaved: the
\* second wrote its fingerprint row after the first and its session before
C16_Witness ==
  /\ Len(handlers) = 3
  /\ MatchedSameVisitor(2, 3)
  /\ handlers[2].matchType = "stable" /\ handlers[3].matchType = "stable"
  /\ handlers[2].fingerprintId < handlers[3].fingerprintId
  /\ handlers[2].sessionId > handlers[3].sessionId
  /\ Len(visitors) = 1

\* C16 as stated: each of two requests that matched one visitor has created
\* its own fingerprint row and its own session row.
C16_EachCreatesBothRows ==
  \A h1, h2 \in Handlers :
    MatchedSameVisitor(h1, h2) =>
      /\ OwnSession(h1) /\ OwnSession(h2)
      /\ handlers[h1].sessionId # handlers[h2].sessionId
      /\ OwnRow(h1) /\ OwnRow(h2)
      /\ WrittenRow(h1) # 0 /\ WrittenRow(h2) # 0
      /\ handlers[h1].fingerprintId # handlers[h2].fingerprintId

\* number of sessions of the response's visitor that the request saw
SeenVisits ==
  calculateCrowdBlendingScore(SubSeq(sessions, 1, pre.sessions), res.visitorId, pre.at).visitCount

\* C17: the confidence floors of the README: the confidence of a response
\* with match type fuzzy-stable is at least 0.90 and that of a response
\* with match type fuzzy at least 0.85, whatever the history of the matched
\* visitor and the distance the layer accepted.
C17_ConfidenceFloors ==
  Accepted =>
    /\ res.matchType = "fuzzy-stable" => res.confidence >= 9000000
    /\ res.matchType = "fuzzy" => res.confidence >= 8500000

\* a fuzzy match at the largest accepted distance, 8, of a visitor with
\* more than 5 sessions in the window, all from no address and in one hour:
\* the lowest score such a visitor can have, 0.3
C17_Witness ==
  /\ Accepted
  /\ res.matchType = "fuzzy"
  /\ SetMin(FuzzyDistances) = 8
  /\ SeenVisits > 5
  /\ SeenScore = 30
  /\ res.confidence = 9350000

\* C19: the trust scorer is monotone: at a fixed time of evaluation, one
\* more session of the visitor, from any address or none and first seen at
\* any time of the 7-day window, never lowers the score.
C19_ScoreMonotone ==
  sc.op = "rescore" => sc.result.score >= sc.before.score

\* a second session, from no address, takes a visitor from one visit to
\* two and the score from 0 to 0.1 or more
C19_Witness ==
  /\ sc.op = "rescore"
  /\ LastSession.ipAddress = NULL
  /\ sc.before.visitCount = 1 /\ sc.result.visitCount = 2
  /\ sc.before.score = 0 /\ sc.result.score >= 10

\* the sessions of the scored visitor inside the 7-day window
InWindow ==
  { i \in 1..Len(sessions) :
      sessions[i].visitorId = 1 /\ now - sessions[i].firstSeen <= 7 * DayMs }

Visits ==
  Cardinality(InWindow)

UniqueIps ==
  Cardinality({ ip \in { ClientAddresses[a] : a \in 1..Len(ClientAddresses) } :
                  \E i \in InWindow : sessions[i].ipAddress = ip })

\* ceil((latest - earliest) / 1 day): the least number of whole days that
\* covers every pair of sessions
DaySpanOfWindow ==
  CHOOSE d \in 0..8 :
    /\ \A i, j \in InWindow : sessions[i].firstSeen - sessions[j].firstSeen <= d * DayMs
    /\ \A e \in 0..(d - 1) :
         \E i, j \in InWindow : sessions[i].firstSeen - sessions[j].firstSeen > e * DayMs

VisitFactor ==
  CASE Visits >= 10 -> 40
    [] Visits >= 5 /\ Visits < 10 -> 30
    [] Visits >= 3 /\ Visits < 5 -> 20
    [] Visits = 2 -> 10
    [] OTHER -> 0

IpFactor ==
  CASE UniqueIps >= 3 -> 40
    [] UniqueIps = 2 -> 30
    [] UniqueIps = 1 /\ Visits >= 3 -> 10
    [] OTHER -> 0

TimeFactor ==
  CASE DaySpanOfWindow >= 5 -> 20
    [] DaySpanOfWindow \in 3..4 -> 15
    [] DaySpanOfWindow \in 1..2 -> 10
    [] OTHER -> 0

TrustLevelOf(score) ==
  CASE score >= 70 -> "verified"
    [] score < 70 /\ Visits >= 3 /\ UniqueIps >= 2 -> "trusted"
    [] score < 70 /\ ~(Visits >= 3 /\ UniqueIps >= 2) /\ Visits >= 2 -> "returning"
    [] OTHER -> "new"

\* C20: over the sessions of a visitor inside the 7-day window the scorer
\* returns the sum of the visit, address and time factors of the table
\* (null addresses not counted, the day span rounded up to whole days), a
\* score in [0, 1], and the trust level VERIFIED for a score of 0.7 or
\* more, else TRUSTED for 3 visits from 2 addresses, else RETURNING for 2
\* visits, else NEW; with no session in the window, score 0 and NEW.
C20_ScoreTable ==
  sc.op \in { "score", "rescore" } =>
    /\ sc.result.visitCount = Visits
    /\ sc.result.uniqueIPs = UniqueIps
    /\ sc.result.daySpan = (IF InWindow = {} THEN 0 ELSE DaySpanOfWindow)
    /\ sc.result.score = (IF InWindow = {} THEN 0 ELSE VisitFactor + IpFactor + TimeFactor)
    /\ 0 <= sc.result.score /\ sc.result.score <= 100
    /\ sc.result.trustLevel = (IF InWindow = {} THEN "new" ELSE TrustLevelOf(sc.result.score))

\* three visits over two days and an hour, two of them from two addresses
\* and the third from none: 0.2 + 0.3 + 0.15, TRUSTED
C20_Witness ==
  /\ sc.op = "rescore"
  /\ LastSession.ipAddress = NULL
  /\ sc.result.visitCount = 3
  /\ sc.result.uniqueIPs = 2
  /\ sc.result.daySpan = 3
  /\ sc.result.score = 65
  /\ sc.result.trustLevel = "trusted"

\* the most recent of the rows the request saw that satisfy P
MostRecent(P(_)) ==
  SetMax({ i \in SeenRows : P(i) })

\* the row the layer of the response selects: the most recent row with the
\* request's hash for the layers 1 to 3, the nearest row, and the most
\* recent of the nearest, for the layers 4 and 5
SelectedRow ==
  CASE res.matchType = "exact" ->
         LET P(i) == fingerprints[i].fingerprintHash = req.fingerprint IN MostRecent(P)
    [] res.matchType = "stable" ->
         LET P(i) == fingerprints[i].stableHash = req.stableHash IN MostRecent(P)
    [] res.matchType = "gpu" ->
         LET P(i) == fingerprints[i].gpuTimingHash = req.gpuTimingHash IN MostRecent(P)
    [] res.matchType = "fuzzy-stable" ->
         LET P(i) == /\ fingerprints[i].stableHash # NoHash
                     /\ Mismatches(fingerprints[i].stableHash, req.stableHash)
                          = SetMin(StableDistances)
         IN  MostRecent(P)
    [] res.matchType = "fuzzy" ->
         LET P(i) == Mismatches(fingerprints[i].fuzzyHash, req.fuzzyHash)
                       = SetMin(FuzzyDistances)
         IN  MostRecent(P)

\* the visitor ids of the state the request found: visitors, owners of
\* fingerprint rows, owners of sessions
PriorVisitorIds ==
  (1..pre.visitors)
    \cup { fingerprints[i].visitorId : i \in SeenRows }
    \cup { sessions[i].visitorId : i \in 1..pre.sessions }

\* C18: for the match layers 1 to 5 the visitor id of the response is that
\* of the fingerprint row the layer selected and isNewVisitor is false; for
\* new, isNewVisitor is true and the visitor id is that of no visitor,
\* fingerprint row or session of the state before the request.
C18_VisitorOfSelectedRow ==
  Accepted =>
    IF res.matchType = "new"
      THEN res.isNewVisitor /\ res.visitorId \notin PriorVisitorIds
      ELSE ~res.isNewVisitor /\ res.visitorId = fingerprints[SelectedRow].visitorId

\* with two visitors stored, a fuzzy match selects the row of the first
\* visitor, the nearest one, and not the most recent row
C18_Witness ==
  /\ Accepted
  /\ res.matchType = "fuzzy"
  /\ pre.visitors = 2
  /\ SelectedRow = 1
  /\ fingerprints[pre.fingerprints].visitorId = 2
  /\ res.visitorId = 1
  /\ ~res.isNewVisitor

\* number of positions at which two strings of the same length differ
DifferingPositions(s1, s2) ==
  Cardinality({ i \in 1..StrLen(s1) : CharAt(s1, i) # CharAt(s2, i) })

\* C21: hammingDistance is symmetric, is 0 on identical strings, counts
\* the positions at which the characters differ, and throws on strings of
\* unequal length instead of returning a number.
C21_Hamming ==
  fn.op = "hammingDistance" =>
    /\ fn.distance = fn.reverse
    /\ fn.s1 = fn.s2 => fn.distance = 0
    /\ StrLen(fn.s1) = StrLen(fn.s2) => fn.distance = DifferingPositions(fn.s1, fn.s2)
    /\ StrLen(fn.s1) # StrLen(fn.s2) => fn.distance = Throws

\* "ab0" against "bb" throws, whichever comes first
C21_Witness ==
  /\ fn.op = "hammingDistance"
  /\ StrLen(fn.s1) = 3 /\ StrLen(fn.s2) = 2
  /\ CharAt(fn.s1, 1) # CharAt(fn.s2, 1)
  /\ fn.distance = Throws /\ fn.reverse = Throws

\* the trust result the validation of the response worked with: the
\* scorer's result for the response's visitor at the time of the request,
\* over the sessions the validation read (on the exact layer the session
\* of the request is written before the validation reads them)
UsedTrust ==
  calculateCrowdBlendingScore(
    SubSeq(sessions, 1, IF res.matchType = "exact" THEN pre.sessions + 1 ELSE pre.sessions),
    res.visitorId, pre.at)

ShouldTrust ==
  res.matchType # "fuzzy" \/ UsedTrust.visitCount <= 5 \/ UsedTrust.score >= 20

\* score x 0.05, 0.10, 0.08, 0.15, 0.20
Boost ==
  CASE res.matchType = "exact"        -> UsedTrust.score * 5 * (ConfOne \div 10000)
    [] res.matchType = "stable"       -> UsedTrust.score * 10 * (ConfOne \div 10000)
    [] res.matchType = "gpu"          -> UsedTrust.score * 8 * (ConfOne \div 10000)
    [] res.matchType = "fuzzy-stable" -> UsedTrust.score * 15 * (ConfOne \div 10000)
    [] res.matchType = "fuzzy"        -> UsedTrust.score * 20 * (ConfOne \div 10000)

\* the multiple of 0.001 nearest to x, the upper one of two equally near
Nearest3(x) ==
  CHOOSE r \in { k * (ConfOne \div 1000) : k \in 0..1000 } :
    /\ 2 * (r - x) <= ConfOne \div 1000
    /\ 2 * (x - r) < ConfOne \div 1000

C23_ShouldTrust ==
  fn.op = "shouldTrustMatch" =>
    IF fn.matchType = "fuzzy"
      THEN fn.trusted <=> (fn.crowdBlending.visitCount <= 5 \/ fn.crowdBlending.score >= 20)
      ELSE fn.trusted

\* a fuzzy match of a visitor with 6 visits and score 0.19 is not trusted
C23_Witness ==
  /\ fn.op = "shouldTrustMatch"
  /\ fn.matchType = "fuzzy"
  /\ fn.crowdBlending.visitCount = 6
  /\ fn.crowdBlending.score = 19
  /\ ~fn.trusted

\* C28: shouldTrustMatch is true, for every match type, of every trust
\* result the scorer produces from a session history; so the 0.7 penalty
\* is never applied, and the confidence of every response on the layers 1
\* to 5 is at least the base confidence of its layer rounded to 3 decimals.
C28_AlwaysTrusted ==
  /\ fn.op = "shouldTrustMatch" => fn.trusted
  /\ (Accepted /\ res.matchType # "new") =>
       /\ ShouldTrust
       /\ res.confidence >= Nearest3(LayerBase)

\* the history nearest to the penalty: 6 visits in one hour from no
\* address score 0.3, and a fuzzy match is trusted
C28_Witness ==
  /\ fn.op = "shouldTrustMatch"
  /\ fn.matchType = "fuzzy"
  /\ fn.crowdBlending.visitCount = 6
  /\ fn.crowdBlending.uniqueIPs = 0
  /\ fn.crowdBlending.daySpan = 0
  /\ fn.crowdBlending.score = 30
  /\ fn.trusted

\* distance of a stored hash to a submitted one, when they can be compared:
\* the stored hash is not null and has the length of the submitted one
Comparable(stored, submitted) ==
  stored # NoHash /\ StrLen(stored) = StrLen(submitted)

\* the rows the scan of layer 4 can take: a stable hash that is not empty,
\* of the submission's length, at no more than 4 positions of it
NearStableRows ==
  { i \in SeenRows :
      /\ TruthyHash(fingerprints[i].stableHash)
      /\ Comparable(fingerprints[i].stableHash, req.stableHash)
      /\ DifferingPositions(fingerprints[i].stableHash, req.stableHash) <= 4 }

\* the rows the scan of layer 5 can take
NearFuzzyRows ==
  { i \in SeenRows :
      /\ Comparable(fingerprints[i].fuzzyHash, req.fuzzyHash)
      /\ DifferingPositions(fingerprints[i].fuzzyHash, req.fuzzyHash) <= 8 }

\* the most recent of the nearest rows
NearestRecent(rows, Distance(_)) ==
  SetMax({ i \in rows : \A j \in rows : Distance(i) <= Distance(j) })

StableDistanceOf(i) ==
  DifferingPositions(fingerprints[i].stableHash, req.stableHash)

FuzzyDistanceOf(i) ==
  DifferingPositions(fingerprints[i].fuzzyHash, req.fuzzyHash)

\* a stored row whose fuzzy or stable hash has another length than the
\* submission's
OddLengthRow(i) ==
  \/ StrLen(fingerprints[i].fuzzyHash) # StrLen(req.fuzzyHash)
  \/ /\ TruthyHash(fingerprints[i].stableHash) /\ TruthyHash(req.stableHash)
     /\ StrLen(fingerprints[i].stableHash) # StrLen(req.stableHash)

\* C24: the fuzzy-stable and fuzzy layers select a row at the least
\* distance among the scanned rows within the threshold (4 for stable
\* hashes, 8 for fuzzy hashes), the most recently created one of the rows
\* at that distance; a row whose hash has another length than the
\* submission's is skipped, and the request is answered all the same.
\* (Row i of the store belongs to visitor i.)
C24_NearestMostRecent ==
  SchemaAccepts(req) =>
    /\ Accepted
    /\ res.matchType = "fuzzy-stable" =>
         /\ NearStableRows # {}
         /\ res.visitorId = NearestRecent(NearStableRows, StableDistanceOf)
         /\ LastRow.visitorId = res.visitorId
    /\ res.matchType = "fuzzy" =>
         /\ NearFuzzyRows # {}
         /\ res.visitorId = NearestRecent(NearFuzzyRows, FuzzyDistanceOf)
         /\ LastRow.visitorId = res.visitorId
    /\ res.matchType = "new" =>
         /\ NearFuzzyRows = {}
         /\ TruthyHash(req.stableHash) => NearStableRows = {}

\* rows 1 and 2 are both at 8 positions of the submitted fuzzy hash, row 3
\* has a fuzzy hash of 63 characters: the second row is selected
C24_Witness ==
  /\ Accepted
  /\ res.matchType = "fuzzy"
  /\ pre.fingerprints = 3
  /\ NearFuzzyRows = { 1, 2 }
  /\ FuzzyDistanceOf(1) = 8 /\ FuzzyDistanceOf(2) = 8
  /\ OddLengthRow(3)
  /\ res.visitorId = 2

\* C25: null never matches: a row whose stable hash or GPU timing hash is
\* null or the empty string is never the row the stable, gpu or
\* fuzzy-stable layer selects, and a submission without a stable hash, or
\* with the empty string for it, never ends in stable or fuzzy-stable.
\* (Row i of the store belongs to visitor i.)
C25_NullNeverMatches ==
  /\ ~TruthyHash(req.stableHash) => res.matchType \notin { "stable", "fuzzy-stable" }
  /\ Accepted =>
       /\ res.matchType \in { "stable", "fuzzy-stable" } =>
            TruthyHash(fingerprints[res.visitorId].stableHash)
       /\ res.matchType = "gpu" =>
            TruthyHash(fingerprints[res.visitorId].gpuTimingHash)

\* the most recent row has the empty string as its stable hash and the
\* submission's GPU timing hash; the submission has a stable hash too, and
\* the gpu layer selects that row
C25_Witness ==
  /\ Accepted
  /\ res.matchType = "gpu"
  /\ TruthyHash(req.stableHash)
  /\ res.visitorId = pre.fingerprints
  /\ fingerprints[res.visitorId].stableHash = << >>
  /\ \E i \in SeenRows : fingerprints[i].gpuTimingHash = << >>

\* the rows of a table before a step are its first rows after it
Kept(before, after) ==
  /\ Len(after) >= Len(before)
  /\ \A i \in 1..Len(before) : after[i] = before[i]

\* a visitor row differs from an earlier one in its cached trust only
SameButTrust(before, after) ==
  [after EXCEPT !.trustLevel      = before.trustLevel,
                !.crowdScore      = before.crowdScore,
                !.uniqueIPs       = before.uniqueIPs,
                !.visitCount      = before.visitCount,
                !.lastScoreUpdate = before.lastScoreUpdate] = before

\* a request has matched the visitor
MatchedBySome(visitorId) ==
  \E h \in Handlers :
    /\ handlers[h].visitorId = visitorId
    /\ handlers[h].matchType \in { "exact", "stable", "gpu", "fuzzy-stable", "fuzzy" }

C27_OneVisitorPerHash ==
  \A i, j \in 1..Len(fingerprints) :
    fingerprints[i].fingerprintHash = fingerprints[j].fingerprintHash =>
      fingerprints[i].visitorId = fingerprints[j].visitorId

\* C29: on every match layer 1 to 5 the trust result that adjusts the
\* confidence and is cached on the visitor is computed from the visitor's
\* sessions as the request found them: the session the request writes is
\* not among the visits counted, on the exact layer as on the others.
C29_OwnSessionNotCounted ==
  (Accepted /\ res.matchType # "new") =>
    /\ visitors[res.visitorId].visitCount = SeenVisits
    /\ visitors[res.visitorId].crowdScore = SeenScore

\* C30: the signature binds the whole token: a token made from a validly
\* signed one by changing only its created-at part does not validate, so
\* that a client cannot change the age the expiry and refresh policy sees.
C30_RedatedTokenRefused ==
  (tin.op = "redated" /\ tout.op = "validate") => ~tout.result.valid
============================================================================
